---- MODULE Spec2Model ----
(***************************************************************************)
(* Ledger and entitlement engine of the VEED rewards platform              *)
(* (controllers.js, latest revision: authController, planController,       *)
(* videoController, walletController, adminUserController,                 *)
(* adminPlanController, adminVideoController, adminFinanceController).     *)
(*                                                                         *)
(* Every request handler is an async function; each awaited datastore      *)
(* call is a point where another request may run.  A handler is therefore  *)
(* modelled as a sequence of steps, one per datastore round trip whose     *)
(* result the rest of the handler depends on; a request slot holds the     *)
(* handler's position (pc) and the documents it has loaded in memory.      *)
(*                                                                         *)
(* Datastore semantics used by the handlers:                               *)
(*  - Model.findById(..) without a session reads the last committed        *)
(*    document, also when called between startTransaction and commit.      *)
(*  - doc.save() writes only the paths modified in memory: a scalar        *)
(*    (balance, status, the plan fields) is written with $set of the value *)
(*    computed in memory, an array push with $push, addToSet with          *)
(*    $addToSet; replacing an array ($set of the whole array) is guarded   *)
(*    by the document version __v and fails when it has moved.             *)
(*  - the writes of one session become visible together at                 *)
(*    commitTransaction; the block from the first write to the commit is   *)
(*    one step.                                                            *)
(* Money is in whole MT; the plan terms used make 10% and 5% integral.     *)
(***************************************************************************)
EXTENDS Integers, Sequences, FiniteSets, Bags, TLC

\* ---------------------------------------------------------------- bounds
MaxTime        == 2    \* clock ticks modelled
MaxLedger      == 4    \* a request is accepted while the ledger is below this
MaxDeposits    == 1    \* deposit requests that can be stored
MaxWithdrawals == 1    \* withdrawal requests that can be stored
MaxLateTime    == 3    \* clock ticks where plans are followed past their expiry

\* ------------------------------------------------------- program constants
SignupBonus       == 50
ReferralPlanPct   == 10
ReferralDailyPct  == 5
SampleSize        == 3

\* ------------------------------------------------------------ input sets
TicksPerDay    == 2
Users          == {"A", "B"}
Plans          == {"p1"}
PlanIds        == {"p1", "p2"}
Videos         == {"v1", "v2"}
Procs          == {1, 2}
PlanCosts      == {40}
Quotas         == {1, 2}
Rewards        == {20}
Durations      == {1}
DepositAmounts == {-60, 20}
WithdrawAmounts == {-60, 20}
AdjustAmounts  == {-60, 20}
OverdrawAmounts == {20, 60}
RequestAmounts  == {-60, 0, 20}
VideosV1        == {"v1"}
EditedQuotas    == {1}
EditedRewards   == {30}
AdjustV1Amounts == {-60, 20, 60}
AdjustTypes     == {"add", "remove", "set"}

NoUser  == "none"
NoPlan  == "none"
NoRef   == "none"
NoDate  == -1
NoNotes == "none"

VARIABLES users, plans, videos, deposits, withdrawals, ledger, now, req, resp

vars == <<users, plans, videos, deposits, withdrawals, ledger, now, req, resp>>

\* ------------------------------------------------------------- documents
AbsentUser ==
  [exists |-> FALSE, isAdmin |-> FALSE, isBlocked |-> FALSE, balance |-> 0,
   referredBy |-> NoUser,
   planId |-> NoPlan, activationDate |-> NoDate, expiryDate |-> NoDate,
   dailyWatchedVideos |-> <<>>, dailyWatchedDates |-> <<>>,
   videosWatchedTodayCount |-> 0, lastVideoReset |-> NoDate,
   fullWatchedHistory |-> {}, v |-> 0]

AbsentPlan ==
  [exists |-> FALSE, isActive |-> FALSE, cost |-> 0, dailyVideoLimit |-> 0,
   durationInDays |-> 0, rewardPerVideo |-> 0]

Idle ==
  [pc |-> "idle", user |-> NoUser, arg |-> NoRef, id |-> 0, amount |-> 0,
   doc |-> AbsentUser, plan |-> AbsentPlan]

\* a percentage of an amount (plan.cost * 0.10, rewardAmount * 0.05)
Pct(x, p) == (x * p) \div 100

\* Date comparison; an unset date compares false both ways
DateLt(a, b) == a # NoDate /\ b # NoDate /\ a < b

\* moment.tz('Africa/Maputo').startOf('day')
StartOfDay(t) == (t \div TicksPerDay) * TicksPerDay

Entry(u, amt, type, ref) == [user |-> u, amount |-> amt, type |-> type, ref |-> ref]

\* variant: the new entry takes the place of the stored ones
PostOverwriting(l, e) == SetToBag({e})

\* Transaction.create: one more document in the collection
Post(l, e) == l (+) SetToBag({e})

DepRef(i) == "d" \o ToString(i)
WdRef(i)  == "w" \o ToString(i)

RECURSIVE SumAmounts(_, _)
SumAmounts(l, es) ==
  IF es = {} THEN 0
  ELSE LET e == CHOOSE x \in es : TRUE
       IN  e.amount * CopiesIn(e, l) + SumAmounts(l, es \ {e})

\* sum of the amounts of an account's ledger entries (all are 'completed')
LedgerSum(u) == SumAmounts(ledger, {e \in BagToSet(ledger) : e.user = u})

\* number of ledger entries satisfying a predicate
RECURSIVE CountIn(_, _)
CountIn(l, es) ==
  IF es = {} THEN 0
  ELSE LET e == CHOOSE x \in es : TRUE
       IN  CopiesIn(e, l) + CountIn(l, es \ {e})

Accepting == BagCardinality(ledger) < MaxLedger

\* a new request is served by the first free slot (slots are interchangeable)
Free(p) == req[p].pc = "idle" /\ \A q \in Procs : q < p => req[q].pc # "idle"

\* account ids are handed out in a fixed order (ids are interchangeable)
NextId(u) == ~users[u].exists /\ (u = "B" => users["A"].exists)

\* the handler ends: the slot is free again and the response is sent
Finish(p, op, result) ==
  /\ req' = [req EXCEPT ![p] = Idle]
  /\ resp' = [op |-> op, result |-> result]

Goto(p, r) ==
  /\ req' = [req EXCEPT ![p] = r]
  /\ UNCHANGED resp

\* ------------------------------------------------------------------ Init
Init ==
  /\ users = [u \in Users |-> AbsentUser]
  /\ plans = [pl \in PlanIds |-> AbsentPlan]
  /\ videos = Videos
  /\ deposits = <<>>
  /\ withdrawals = <<>>
  /\ ledger = EmptyBag
  /\ now = 0
  /\ req = [p \in Procs |-> Idle]
  /\ resp = [op |-> "none", result |-> "none"]

\* the clock advances
Tick ==
  /\ now < MaxTime
  /\ now' = now + 1
  /\ UNCHANGED <<users, plans, videos, deposits, withdrawals, ledger, req, resp>>

\* -------------------------------------------------- authController.registerUser
\* findOne (user exists?), findOne (referrer by code), User.create
RegisterUser(p, u, code) ==
  /\ Free(p)
  /\ users[u].exists \/ NextId(u)
  /\ IF users[u].exists
     THEN /\ Finish(p, "registerUser", "UserExists")
          /\ UNCHANGED users
     ELSE /\ Accepting
          /\ users' = [users EXCEPT ![u] =
                 [AbsentUser EXCEPT !.exists = TRUE, !.balance = SignupBonus,
                    !.referredBy = IF code # NoUser /\ users[code].exists
                                   THEN code ELSE NoUser]]
          /\ Goto(p, [Idle EXCEPT !.pc = "reg_tx", !.user = u])
  /\ UNCHANGED <<plans, videos, deposits, withdrawals, ledger, now>>

\* Transaction.create of the signup bonus
RegisterUserTx(p) ==
  /\ req[p].pc = "reg_tx"
  /\ ledger' = Post(ledger, Entry(req[p].user, SignupBonus, "signup_bonus", NoRef))
  /\ Finish(p, "registerUser", "ok")
  /\ UNCHANGED <<users, plans, videos, deposits, withdrawals, now>>

\* -------------------------------------------------- adminPlanController.createPlan
CreatePlan(pl, c, q, d, r) ==
  /\ ~plans[pl].exists
  /\ plans' = [plans EXCEPT ![pl] =
        [exists |-> TRUE, isActive |-> TRUE, cost |-> c, dailyVideoLimit |-> q,
         durationInDays |-> d, rewardPerVideo |-> r]]
  /\ UNCHANGED <<users, videos, deposits, withdrawals, ledger, now, req, resp>>

\* -------------------------------------------------- adminPlanController.updatePlan
\* Plan.findById, the fields of the body assigned over the plan's, plan.save();
\* the body carries dailyVideoLimit and rewardPerVideo, the other fields are
\* absent and keep their values
UpdatePlan(pl, q, r) ==
  /\ plans[pl].exists
  /\ plans' = [plans EXCEPT ![pl].dailyVideoLimit = q, ![pl].rewardPerVideo = r]
  /\ UNCHANGED <<users, videos, deposits, withdrawals, ledger, now, req, resp>>

\* updatePlan with a body that carries isActive only
SetPlanActive(pl, a) ==
  /\ plans[pl].exists
  /\ plans[pl].isActive # a
  /\ plans' = [plans EXCEPT ![pl].isActive = a]
  /\ UNCHANGED <<users, videos, deposits, withdrawals, ledger, now, req, resp>>

\* -------------------------------------------------- adminPlanController.deletePlan
\* Plan.findById, plan.remove(): the accounts that hold the plan keep its id
\* in activePlan.planId, which populate() then resolves to null
DeletePlan(pl) ==
  /\ plans[pl].exists
  /\ plans' = [plans EXCEPT ![pl] = AbsentPlan]
  /\ UNCHANGED <<users, videos, deposits, withdrawals, ledger, now, req, resp>>

\* the referrer's bonus inside the buyer's / watcher's transaction:
\* User.findById(user.referredBy), referrer.balance += bonus, referrer.save,
\* Transaction.create
\* variant: the referrer's balance is left alone
WithoutReferrerBonus(us, doc, bonus) == us

WithReferrerBonus(us, doc, bonus) ==
  IF doc.referredBy # NoUser /\ us[doc.referredBy].exists
  THEN [us EXCEPT ![doc.referredBy].balance = @ + bonus]
  ELSE us

\* variant: the bonus entry is posted whether or not a referrer was found
ReferrerEntryAlways(l, us, u, doc, bonus, type) ==
  Post(l, Entry(doc.referredBy, bonus, type, u))

ReferrerEntry(l, us, u, doc, bonus, type) ==
  IF doc.referredBy # NoUser /\ us[doc.referredBy].exists
  THEN Post(l, Entry(doc.referredBy, bonus, type, u))
  ELSE l

\* -------------------------------------------------- planController.buyPlan
\* Plan.findById, User.findById and the three checks
BuyPlanRead(p, u, pl) ==
  /\ Free(p)
  /\ users[u].exists
  /\ IF ~plans[pl].exists \/ ~plans[pl].isActive
       THEN Finish(p, "buyPlan", "PlanNotFound")
     ELSE IF DateLt(now, users[u].expiryDate)
       THEN Finish(p, "buyPlan", "AlreadyActivePlan")
     ELSE IF users[u].balance < plans[pl].cost
       THEN Finish(p, "buyPlan", "InsufficientFunds")
     ELSE /\ Accepting
          /\ Goto(p, [Idle EXCEPT !.pc = "buy_tx", !.user = u, !.arg = pl,
                                  !.doc = users[u], !.plan = plans[pl]])
  /\ UNCHANGED <<users, plans, videos, deposits, withdrawals, ledger, now>>

\* Date.prototype.getDate(): the day of the month of an instant (the instants
\* followed fall within one month)
GetDate(t) == t \div TicksPerDay

\* Date.prototype.setDate(n) applied to the instant t: the day of the month
\* becomes n, the time of day stays
SetDate(t, n) == (n * TicksPerDay) + (t % TicksPerDay)

\* what a second new Date() can return after a first returned t: the clock
\* may have advanced between the two reads
LaterReads(t) == {t} \cup {t2 \in {t + 1} : t2 <= MaxTime}

\* the transaction: activationDate and expiryDate are two reads of the clock,
\* expiryDate.setDate(activationDate.getDate() + durationInDays), user.save,
\* Transaction.create, referrer bonus, commit
BuyPlanTx(p) ==
  LET u   == req[p].user
      doc == req[p].doc
      pl  == req[p].plan
      bonus == Pct(pl.cost, ReferralPlanPct)
  IN  /\ req[p].pc = "buy_tx"
      /\ \E t2 \in LaterReads(now) :
           LET activationDate == now
               expiryDate == SetDate(t2, GetDate(activationDate) + pl.durationInDays)
               us1 == [users EXCEPT ![u].balance = doc.balance - pl.cost,
                                    ![u].planId = req[p].arg,
                                    ![u].activationDate = activationDate,
                                    ![u].expiryDate = expiryDate]
               l1  == Post(ledger, Entry(u, -pl.cost, "plan_purchase", NoRef))
           IN  /\ users' = WithReferrerBonus(us1, doc, bonus)
               /\ ledger' = ReferrerEntry(l1, us1, u, doc, bonus, "referral_plan")
               /\ now' = t2
      /\ Finish(p, "buyPlan", "ok")
      /\ UNCHANGED <<plans, videos, deposits, withdrawals>>

\* -------------------------------------------------- checkAndResetDailyVideos
\* variant: the comparison is made with the current instant, not the start of
\* the day
NeedsResetSinceInstant(doc, t) ==
  doc.lastVideoReset = NoDate \/ doc.lastVideoReset < t

NeedsReset(doc, t) ==
  doc.lastVideoReset = NoDate \/ doc.lastVideoReset < StartOfDay(t)

\* variant: the list is emptied but the time of the reset is not recorded
ResetDocKeepStamp(doc, t) ==
  [doc EXCEPT !.dailyWatchedVideos = <<>>, !.dailyWatchedDates = <<>>]

\* the document in memory after the reset branch assigned its fields
ResetDoc(doc, t) ==
  [doc EXCEPT !.dailyWatchedVideos = <<>>, !.dailyWatchedDates = <<>>,
              !.lastVideoReset = t]

\* user.save() of the reset, n being the length of the list as it was read.
\* Assigning [] over a non-empty array replaces the array: the update is
\* guarded by __v and increments it. Assigning [] over an empty array leaves
\* the path unmodified: only lastVideoReset is written, with no guard.
ResetConflict(us, u, doc, n) == n > 0 /\ us[u].v # doc.v

ResetSave(us, u, doc, n) ==
  IF n = 0
  THEN [us EXCEPT ![u].lastVideoReset = doc.lastVideoReset]
  ELSE [us EXCEPT ![u].dailyWatchedVideos = <<>>,
                  ![u].dailyWatchedDates = <<>>,
                  ![u].lastVideoReset = doc.lastVideoReset,
                  ![u].v = @ + 1]

\* the document in memory after the save
ResetSaved(doc, n) == IF n = 0 THEN doc ELSE [doc EXCEPT !.v = @ + 1]

InSeq(x, s) == \E k \in 1..Len(s) : s[k] = x

\* -------------------------------------------------- videoController.markVideoAsWatched
\* variant: the same-video check is missing
MarkChecksQuotaOnly(doc, pl, vid) ==
  IF Len(doc.dailyWatchedVideos) >= pl.dailyVideoLimit THEN "QuotaExhausted"
  ELSE "pass"

\* the quota and same-video checks on the document in memory
MarkChecks(doc, pl, vid) ==
  IF Len(doc.dailyWatchedVideos) >= pl.dailyVideoLimit THEN "QuotaExhausted"
  ELSE IF InSeq(vid, doc.dailyWatchedVideos) THEN "AlreadyCredited"
  ELSE "pass"

\* User.findById(..).populate('activePlan.planId') and the plan check; when no
\* reset is due checkAndResetDailyVideos awaits nothing and the checks follow
MarkRead(p, u, vid) ==
  /\ Free(p)
  /\ users[u].exists
  /\ LET doc == users[u]
         pl  == IF doc.planId # NoPlan THEN plans[doc.planId] ELSE AbsentPlan
         r   == [Idle EXCEPT !.user = u, !.arg = vid, !.doc = doc, !.plan = pl]
     IN  IF doc.planId = NoPlan \/ ~pl.exists \/ DateLt(doc.expiryDate, now)
           THEN Finish(p, "markVideoAsWatched", "NoActivePlan")
         ELSE IF NeedsReset(doc, now)
           THEN /\ Accepting
                /\ Goto(p, [r EXCEPT !.pc = "mark_reset",
                                      !.id = Len(doc.dailyWatchedVideos),
                                      !.doc = ResetDoc(doc, now)])
         ELSE IF MarkChecks(doc, pl, vid) # "pass"
           THEN Finish(p, "markVideoAsWatched", MarkChecks(doc, pl, vid))
         ELSE /\ Accepting
              /\ Goto(p, [r EXCEPT !.pc = "mark_tx"])
  /\ UNCHANGED <<users, plans, videos, deposits, withdrawals, ledger, now>>

\* user.save() of checkAndResetDailyVideos, then the checks
MarkReset(p) ==
  LET u   == req[p].user
      doc == req[p].doc
      n   == req[p].id
  IN  /\ req[p].pc = "mark_reset"
      /\ IF ResetConflict(users, u, doc, n)
           THEN /\ Finish(p, "markVideoAsWatched", "VersionError")
                /\ UNCHANGED users
         ELSE /\ users' = ResetSave(users, u, doc, n)
              /\ IF MarkChecks(doc, req[p].plan, req[p].arg) # "pass"
                   THEN Finish(p, "markVideoAsWatched",
                               MarkChecks(doc, req[p].plan, req[p].arg))
                 ELSE Goto(p, [req[p] EXCEPT !.pc = "mark_tx", !.id = 0,
                                             !.doc = ResetSaved(doc, n)])
      /\ UNCHANGED <<plans, videos, deposits, withdrawals, ledger, now>>

\* the transaction: push, addToSet, balance, reward entry, referrer bonus
MarkTx(p) ==
  LET u   == req[p].user
      doc == req[p].doc
      vid == req[p].arg
      reward == req[p].plan.rewardPerVideo
      bonus  == Pct(reward, ReferralDailyPct)
      us1 == [users EXCEPT
                ![u].dailyWatchedVideos = Append(@, vid),
                ![u].dailyWatchedDates = Append(@, now),
                ![u].fullWatchedHistory =
                    IF vid \in doc.fullWatchedHistory THEN @ ELSE @ \cup {vid},
                ![u].balance = doc.balance + reward,
                ![u].v = @ + 1]
      l1  == Post(ledger, Entry(u, reward, "daily_reward", vid))
  IN  /\ req[p].pc = "mark_tx"
      /\ users' = WithReferrerBonus(us1, doc, bonus)
      /\ ledger' = ReferrerEntry(l1, us1, u, doc, bonus, "referral_daily")
      /\ Finish(p, "markVideoAsWatched", "ok")
      /\ UNCHANGED <<plans, videos, deposits, withdrawals, now>>

\* -------------------------------------------------- videoController.getDailyVideos
\* an array of the documents of a set, in the order the store returns them
RECURSIVE SeqOf(_)
SeqOf(S) ==
  IF S = {} THEN <<>>
  ELSE LET x == CHOOSE y \in S : TRUE IN <<x>> \o SeqOf(S \ {x})

\* the results a query bounded to n documents (limit, $sample) can return
Picks(S, n) ==
  {T \in SUBSET S : Cardinality(T) = IF n < Cardinality(S) THEN n ELSE Cardinality(S)}

\* variant: the plan's expiry date is not looked at
NoPlanIgnoringExpiry(doc, pl, t) == doc.planId = NoPlan \/ ~pl.exists

\* !user.activePlan || !user.activePlan.planId || expiryDate < new Date()
NoPlanAt(doc, pl, t) ==
  doc.planId = NoPlan \/ ~pl.exists \/ DateLt(doc.expiryDate, t)

\* plan.dailyVideoLimit - user.dailyWatchedVideos.length
VideosToWatchCount(doc, pl) == pl.dailyVideoLimit - Len(doc.dailyWatchedVideos)

TodayIds(doc) == {doc.dailyWatchedVideos[k] : k \in 1..Len(doc.dailyWatchedVideos)}

\* variant: the first query is not limited to the remaining count
AvailableVideosUnlimited(doc, pl) == {videos \ doc.fullWatchedHistory}

\* Video.find({_id: {$nin: watchedHistoryIds}}).limit(videosToWatchCount)
AvailableVideos(doc, pl) ==
  Picks(videos \ doc.fullWatchedHistory, VideosToWatchCount(doc, pl))

\* the $match/$sample of the second query: outside the whole history and
\* outside today's list, size the count still missing
MoreVideos(doc, pl, first) ==
  IF Cardinality(first) < VideosToWatchCount(doc, pl)
  THEN Picks(videos \ (doc.fullWatchedHistory \cup TodayIds(doc)),
             VideosToWatchCount(doc, pl) - Cardinality(first))
  ELSE {{}}

\* the response of getDailyVideos carries the videos array
FinishVideos(p, result, vids) ==
  /\ req' = [req EXCEPT ![p] = Idle]
  /\ resp' = [op |-> "getDailyVideos", result |-> result, videos |-> vids]

\* the part of the handler after checkAndResetDailyVideos
DailyAnswer(p, doc, pl) ==
  IF VideosToWatchCount(doc, pl) <= 0
  THEN FinishVideos(p, "AllWatched", <<>>)
  ELSE \E first \in AvailableVideos(doc, pl) :
         \E more \in MoreVideos(doc, pl, first) :
           FinishVideos(p, "ok", SeqOf(first) \o SeqOf(more))

\* User.findById(..).populate('activePlan.planId'), the plan test (its
\* answer: canWatch false and a sample of SampleSize videos), and when no
\* reset is due the rest of the handler
GetDailyVideosRead(p, u) ==
  /\ Free(p)
  /\ users[u].exists
  /\ LET doc == users[u]
         pl  == IF doc.planId # NoPlan THEN plans[doc.planId] ELSE AbsentPlan
     IN  IF NoPlanAt(doc, pl, now)
           THEN \E sample \in Picks(videos, SampleSize) :
                  FinishVideos(p, "NoPlan", SeqOf(sample))
         ELSE IF NeedsReset(doc, now)
           THEN Goto(p, [Idle EXCEPT !.pc = "daily_reset", !.user = u,
                                     !.id = Len(doc.dailyWatchedVideos),
                                     !.doc = ResetDoc(doc, now), !.plan = pl])
         ELSE DailyAnswer(p, doc, pl)
  /\ UNCHANGED <<users, plans, videos, deposits, withdrawals, ledger, now>>

\* user.save() of checkAndResetDailyVideos, then the rest of the handler
GetDailyVideosReset(p) ==
  LET u   == req[p].user
      doc == req[p].doc
      n   == req[p].id
  IN  /\ req[p].pc = "daily_reset"
      /\ IF ResetConflict(users, u, doc, n)
           THEN /\ FinishVideos(p, "VersionError", <<>>)
                /\ UNCHANGED users
         ELSE /\ users' = ResetSave(users, u, doc, n)
              /\ DailyAnswer(p, ResetSaved(doc, n), req[p].plan)
      /\ UNCHANGED <<plans, videos, deposits, withdrawals, ledger, now>>

\* -------------------------------------------------- walletController.requestDeposit
\* the test of the body's fields (!amount is true of an absent amount and of
\* 0), Deposit.create
RequestDeposit(p, u, amt) ==
  /\ Free(p)
  /\ users[u].exists
  /\ Len(deposits) < MaxDeposits
  /\ IF amt = 0
       THEN /\ Finish(p, "requestDeposit", "MissingFields")
            /\ UNCHANGED deposits
     ELSE /\ Accepting
          /\ deposits' = Append(deposits,
                            [user |-> u, amount |-> amt, status |-> "pending"])
          /\ Finish(p, "requestDeposit", "ok")
  /\ UNCHANGED <<users, plans, videos, withdrawals, ledger, now>>

\* -------------------------------------------------- walletController.requestWithdrawal
\* variant: the balance is not compared with the amount
RequestWithdrawalNoBalanceCheck(p, u, amt) ==
  /\ Free(p)
  /\ users[u].exists
  /\ Len(withdrawals) < MaxWithdrawals
  /\ IF amt = 0
       THEN /\ Finish(p, "requestWithdrawal", "MissingFields")
            /\ UNCHANGED withdrawals
     ELSE IF users[u].planId = NoPlan \/ DateLt(users[u].expiryDate, now)
       THEN /\ Finish(p, "requestWithdrawal", "NoActivePlan")
            /\ UNCHANGED withdrawals
     ELSE /\ Accepting
          /\ withdrawals' = Append(withdrawals,
                               [user |-> u, amount |-> amt, status |-> "pending",
                                adminNotes |-> NoNotes])
          /\ Finish(p, "requestWithdrawal", "ok")
  /\ UNCHANGED <<users, plans, videos, deposits, ledger, now>>

\* variant: the plan check does not look at the expiry date
RequestWithdrawalIgnoringExpiry(p, u, amt) ==
  /\ Free(p)
  /\ users[u].exists
  /\ Len(withdrawals) < MaxWithdrawals
  /\ IF amt = 0
       THEN /\ Finish(p, "requestWithdrawal", "MissingFields")
            /\ UNCHANGED withdrawals
     ELSE IF users[u].planId = NoPlan
       THEN /\ Finish(p, "requestWithdrawal", "NoActivePlan")
            /\ UNCHANGED withdrawals
     ELSE IF users[u].balance < amt
       THEN /\ Finish(p, "requestWithdrawal", "InsufficientFunds")
            /\ UNCHANGED withdrawals
     ELSE /\ Accepting
          /\ withdrawals' = Append(withdrawals,
                               [user |-> u, amount |-> amt, status |-> "pending",
                                adminNotes |-> NoNotes])
          /\ Finish(p, "requestWithdrawal", "ok")
  /\ UNCHANGED <<users, plans, videos, deposits, ledger, now>>

\* User.findById, the test of the body's fields (!amount), the plan and
\* balance checks, Withdrawal.create
RequestWithdrawal(p, u, amt) ==
  /\ Free(p)
  /\ users[u].exists
  /\ Len(withdrawals) < MaxWithdrawals
  /\ IF amt = 0
       THEN /\ Finish(p, "requestWithdrawal", "MissingFields")
            /\ UNCHANGED withdrawals
     ELSE IF users[u].planId = NoPlan \/ DateLt(users[u].expiryDate, now)
       THEN /\ Finish(p, "requestWithdrawal", "NoActivePlan")
            /\ UNCHANGED withdrawals
     ELSE IF users[u].balance < amt
       THEN /\ Finish(p, "requestWithdrawal", "InsufficientFunds")
            /\ UNCHANGED withdrawals
     ELSE /\ Accepting
          /\ withdrawals' = Append(withdrawals,
                               [user |-> u, amount |-> amt, status |-> "pending",
                                adminNotes |-> NoNotes])
          /\ Finish(p, "requestWithdrawal", "ok")
  /\ UNCHANGED <<users, plans, videos, deposits, ledger, now>>

\* -------------------------------------------------- adminFinanceController.approveDeposit
\* variant: only the existence of the deposit is checked, not its status
ApproveDepositReadAnyStatus(p, i) ==
  /\ Free(p)
  /\ IF i > Len(deposits)
       THEN Finish(p, "approveDeposit", "AlreadyProcessed")
       ELSE /\ Accepting
            /\ Goto(p, [Idle EXCEPT !.pc = "apd_user", !.id = i,
                                 !.user = deposits[i].user,
                                 !.amount = deposits[i].amount])
  /\ UNCHANGED <<users, plans, videos, deposits, withdrawals, ledger, now>>

\* Deposit.findById and the pending check
ApproveDepositRead(p, i) ==
  /\ Free(p)
  /\ IF i > Len(deposits) \/ deposits[i].status # "pending"
       THEN Finish(p, "approveDeposit", "AlreadyProcessed")
       ELSE /\ Accepting
            /\ Goto(p, [Idle EXCEPT !.pc = "apd_user", !.id = i,
                                 !.user = deposits[i].user,
                                 !.amount = deposits[i].amount])
  /\ UNCHANGED <<users, plans, videos, deposits, withdrawals, ledger, now>>

\* User.findById(deposit.user)
ApproveDepositUser(p) ==
  /\ req[p].pc = "apd_user"
  /\ Goto(p, [req[p] EXCEPT !.pc = "apd_tx", !.doc = users[req[p].user]])
  /\ UNCHANGED <<users, plans, videos, deposits, withdrawals, ledger, now>>

\* the transaction: user.save, deposit.save, Transaction.create, commit
ApproveDepositTx(p) ==
  LET u == req[p].user
      i == req[p].id
  IN  /\ req[p].pc = "apd_tx"
      /\ users' = [users EXCEPT ![u].balance = req[p].doc.balance + req[p].amount]
      /\ deposits' = [deposits EXCEPT ![i].status = "approved"]
      /\ ledger' = Post(ledger, Entry(u, req[p].amount, "deposit", DepRef(i)))
      /\ Finish(p, "approveDeposit", "ok")
      /\ UNCHANGED <<plans, videos, withdrawals, now>>

\* -------------------------------------------------- adminFinanceController.rejectDeposit
RejectDepositRead(p, i) ==
  /\ Free(p)
  /\ IF i > Len(deposits) \/ deposits[i].status # "pending"
       THEN Finish(p, "rejectDeposit", "AlreadyProcessed")
       ELSE /\ Accepting
            /\ Goto(p, [Idle EXCEPT !.pc = "rjd_save", !.id = i])
  /\ UNCHANGED <<users, plans, videos, deposits, withdrawals, ledger, now>>

\* variant: the rejection also touches the account's balance
RejectDepositSaveDebiting(p) ==
  /\ req[p].pc = "rjd_save"
  /\ deposits' = [deposits EXCEPT ![req[p].id].status = "rejected"]
  /\ users' = [users EXCEPT ![deposits[req[p].id].user].balance =
                               @ - deposits[req[p].id].amount]
  /\ Finish(p, "rejectDeposit", "ok")
  /\ UNCHANGED <<plans, videos, withdrawals, ledger, now>>

\* deposit.save() of the status set in memory
RejectDepositSave(p) ==
  /\ req[p].pc = "rjd_save"
  /\ deposits' = [deposits EXCEPT ![req[p].id].status = "rejected"]
  /\ Finish(p, "rejectDeposit", "ok")
  /\ UNCHANGED <<users, plans, videos, withdrawals, ledger, now>>

\* -------------------------------------------------- adminFinanceController.approveWithdrawal
ApproveWithdrawalRead(p, i) ==
  /\ Free(p)
  /\ IF i > Len(withdrawals) \/ withdrawals[i].status # "pending"
       THEN Finish(p, "approveWithdrawal", "AlreadyProcessed")
       ELSE /\ Accepting
            /\ Goto(p, [Idle EXCEPT !.pc = "apw_user", !.id = i,
                                 !.user = withdrawals[i].user,
                                 !.amount = withdrawals[i].amount])
  /\ UNCHANGED <<users, plans, videos, deposits, withdrawals, ledger, now>>

\* User.findById(withdrawal.user)
ApproveWithdrawalUser(p) ==
  /\ req[p].pc = "apw_user"
  /\ Goto(p, [req[p] EXCEPT !.pc = "apw_tx", !.doc = users[req[p].user]])
  /\ UNCHANGED <<users, plans, videos, deposits, withdrawals, ledger, now>>

\* variant: the rejection for insufficient balance is rolled back with the
\* error the handler raises
ApproveWithdrawalTxRejectionLost(p) ==
  LET u == req[p].user
      i == req[p].id
  IN  /\ req[p].pc = "apw_tx"
      /\ IF req[p].doc.balance < req[p].amount
           THEN /\ Finish(p, "approveWithdrawal", "InsufficientFunds")
                /\ UNCHANGED <<users, withdrawals, ledger>>
           ELSE /\ users' = [users EXCEPT
                               ![u].balance = req[p].doc.balance - req[p].amount]
                /\ withdrawals' = [withdrawals EXCEPT ![i].status = "approved"]
                /\ ledger' = Post(ledger,
                                Entry(u, -req[p].amount, "withdrawal", WdRef(i)))
                /\ Finish(p, "approveWithdrawal", "ok")
      /\ UNCHANGED <<plans, videos, deposits, now>>

\* the transaction: either the rejection for insufficient balance is
\* committed (commitTransaction precedes the throw), or balance, status and
\* the withdrawal entry are
ApproveWithdrawalTx(p) ==
  LET u == req[p].user
      i == req[p].id
  IN  /\ req[p].pc = "apw_tx"
      /\ IF req[p].doc.balance < req[p].amount
           THEN /\ withdrawals' = [withdrawals EXCEPT
                      ![i].status = "rejected",
                      ![i].adminNotes = "Saldo insuficiente no momento da aprovacao."]
                /\ Finish(p, "approveWithdrawal", "InsufficientFunds")
                /\ UNCHANGED <<users, ledger>>
           ELSE /\ users' = [users EXCEPT
                               ![u].balance = req[p].doc.balance - req[p].amount]
                /\ withdrawals' = [withdrawals EXCEPT ![i].status = "approved"]
                /\ ledger' = Post(ledger,
                                Entry(u, -req[p].amount, "withdrawal", WdRef(i)))
                /\ Finish(p, "approveWithdrawal", "ok")
      /\ UNCHANGED <<plans, videos, deposits, now>>

\* -------------------------------------------------- adminFinanceController.rejectWithdrawal
RejectWithdrawalRead(p, i) ==
  /\ Free(p)
  /\ IF i > Len(withdrawals) \/ withdrawals[i].status # "pending"
       THEN Finish(p, "rejectWithdrawal", "AlreadyProcessed")
       ELSE /\ Accepting
            /\ Goto(p, [Idle EXCEPT !.pc = "rjw_save", !.id = i])
  /\ UNCHANGED <<users, plans, videos, deposits, withdrawals, ledger, now>>

RejectWithdrawalSave(p) ==
  /\ req[p].pc = "rjw_save"
  /\ withdrawals' = [withdrawals EXCEPT
        ![req[p].id].status = "rejected",
        ![req[p].id].adminNotes = "Sem motivo especificado."]
  /\ Finish(p, "rejectWithdrawal", "ok")
  /\ UNCHANGED <<users, plans, videos, deposits, ledger, now>>

\* -------------------------------------------------- adminUserController.manualBalanceUpdate
\* User.findById
ManualBalanceRead(p, u, amt) ==
  /\ Free(p)
  /\ IF ~users[u].exists
       THEN Finish(p, "manualBalanceUpdate", "UserNotFound")
       ELSE /\ Accepting
            /\ Goto(p, [Idle EXCEPT !.pc = "adj_tx", !.user = u, !.amount = amt,
                                 !.doc = users[u]])
  /\ UNCHANGED <<users, plans, videos, deposits, withdrawals, ledger, now>>

\* the transaction: the negative-balance check, user.save, Transaction.create
ManualBalanceTx(p) ==
  LET u   == req[p].user
      amt == req[p].amount
  IN  /\ req[p].pc = "adj_tx"
      /\ IF req[p].doc.balance + amt < 0
           THEN /\ Finish(p, "manualBalanceUpdate", "NegativeBalance")
                /\ UNCHANGED <<users, ledger>>
           ELSE /\ users' = [users EXCEPT ![u].balance = req[p].doc.balance + amt]
                /\ ledger' = Post(ledger,
                     Entry(u, amt, IF amt > 0 THEN "admin_credit" ELSE "admin_debit",
                           NoRef))
                /\ Finish(p, "manualBalanceUpdate", "ok")
      /\ UNCHANGED <<plans, videos, deposits, withdrawals, now>>

\* -------------------------------------------------- authController.loginUser
\* User.findOne by e-mail with the right password; a blocked account gets no
\* token. (registerUser answers with a token as well, valid for days: every
\* stored account holds one, and protect asks only that it names a stored
\* account.)
LoginUser(p, u) ==
  /\ Free(p)
  /\ IF ~users[u].exists
       THEN Finish(p, "loginUser", "InvalidCredentials")
     ELSE IF users[u].isBlocked
       THEN Finish(p, "loginUser", "Blocked")
     ELSE Finish(p, "loginUser", "ok")
  /\ UNCHANGED <<users, plans, videos, deposits, withdrawals, ledger, now>>

\* -------------------------------------------------- adminUserController.toggleBlockUser
\* User.findById, user.isBlocked = !user.isBlocked, user.save()
ToggleBlockUser(u) ==
  /\ users[u].exists
  /\ users' = [users EXCEPT ![u].isBlocked = ~@]
  /\ UNCHANGED <<plans, videos, deposits, withdrawals, ledger, now, req, resp>>

\* -------------------------------------------------- adminVideoController.deleteVideo
\* Video.findById
DeleteVideoRead(p, vid) ==
  /\ Free(p)
  /\ IF vid \notin videos
       THEN Finish(p, "deleteVideo", "VideoNotFound")
       ELSE Goto(p, [Idle EXCEPT !.pc = "dv_remove", !.arg = vid])
  /\ UNCHANGED <<users, plans, videos, deposits, withdrawals, ledger, now>>

\* video.remove()
DeleteVideoRemove(p) ==
  /\ req[p].pc = "dv_remove"
  /\ videos' = videos \ {req[p].arg}
  /\ Goto(p, [req[p] EXCEPT !.pc = "dv_pull"])
  /\ UNCHANGED <<users, plans, deposits, withdrawals, ledger, now>>

\* User.updateMany({}, {$pull: {fullWatchedHistory: video._id}}): the id
\* leaves every account's history; no other path and no __v is written
DeleteVideoPull(p) ==
  /\ req[p].pc = "dv_pull"
  /\ users' = [u \in Users |->
                 [users[u] EXCEPT !.fullWatchedHistory = @ \ {req[p].arg}]]
  /\ Finish(p, "deleteVideo", "ok")
  /\ UNCHANGED <<plans, videos, deposits, withdrawals, ledger, now>>

\* -------------------------------------------------- protect, admin (middleware)
\* who sends a request: the account its token names, or nobody (no token,
\* an invalid one, or one naming no stored account)
Actors == Users \cup {NoUser}

\* isAdmin is false for every account created by registerUser and no route
\* writes it: an account is made administrator in the datastore
Promote(u) ==
  /\ users[u].exists /\ ~users[u].isAdmin
  /\ users' = [users EXCEPT ![u].isAdmin = TRUE]
  /\ UNCHANGED <<plans, videos, deposits, withdrawals, ledger, now, req, resp>>

\* variant: any stored account passes the admin middleware
IsAdminAnyAccount(us, actor) == TRUE

\* req.user && req.user.isAdmin
IsAdmin(us, actor) == us[actor].isAdmin

\* a route declared with protect, admin: protect answers 401 unless the
\* token names a stored account, admin answers 403 unless that account is
\* an administrator, and only then the handler (its first step H) runs
Protected(p, actor, op, H) ==
  IF actor = NoUser \/ ~users[actor].exists
    THEN /\ Free(p)
         /\ Finish(p, op, "Unauthorized")
         /\ UNCHANGED <<users, plans, videos, deposits, withdrawals, ledger, now>>
  ELSE IF ~IsAdmin(users, actor)
    THEN /\ Free(p)
         /\ Finish(p, op, "Forbidden")
         /\ UNCHANGED <<users, plans, videos, deposits, withdrawals, ledger, now>>
  ELSE H

\* a request to one of the four routes that resolve a deposit or withdrawal
AdminFinanceRequest(p, actor) ==
  \/ \E i \in 1..MaxDeposits :
        Protected(p, actor, "approveDeposit", ApproveDepositRead(p, i))
  \/ \E i \in 1..MaxDeposits :
        Protected(p, actor, "rejectDeposit", RejectDepositRead(p, i))
  \/ \E i \in 1..MaxWithdrawals :
        Protected(p, actor, "approveWithdrawal", ApproveWithdrawalRead(p, i))
  \/ \E i \in 1..MaxWithdrawals :
        Protected(p, actor, "rejectWithdrawal", RejectWithdrawalRead(p, i))

\* ==================================================== earlier revision
\* The earlier revision of the controllers (registerUser, createPlan,
\* purchasePlan, requestWithdrawal, updateWithdrawalStatus).  It opens no
\* session: every save and every Transaction.create is a write of its own,
\* visible as soon as it is made.

\* -------------------------------------------------- registerUser (earlier revision)
\* findOne (user exists?), findOne (referrer by code), User.create with the
\* schema's default balance; no ledger entry is created
RegisterUserV1(p, u, code) ==
  /\ Free(p)
  /\ users[u].exists \/ NextId(u)
  /\ IF users[u].exists
       THEN /\ Finish(p, "registerUser", "UserExists")
            /\ UNCHANGED users
     ELSE IF code # NoUser /\ ~users[code].exists
       THEN /\ Finish(p, "registerUser", "InvalidReferralCode")
            /\ UNCHANGED users
     ELSE /\ users' = [users EXCEPT ![u] =
                 [AbsentUser EXCEPT !.exists = TRUE, !.balance = SignupBonus,
                                    !.referredBy = code]]
          /\ Finish(p, "registerUser", "ok")
  /\ UNCHANGED <<plans, videos, deposits, withdrawals, ledger, now>>

\* -------------------------------------------------- createPlan (earlier revision)
CreatePlanV1(pl, c, q, d, r) ==
  /\ ~plans[pl].exists
  /\ c # 0 /\ q # 0 /\ d # 0 /\ r # 0
  /\ plans' = [plans EXCEPT ![pl] =
        [exists |-> TRUE, isActive |-> TRUE, cost |-> c, dailyVideoLimit |-> q,
         durationInDays |-> d, rewardPerVideo |-> r]]
  /\ UNCHANGED <<users, videos, deposits, withdrawals, ledger, now, req, resp>>

\* -------------------------------------------------- purchasePlan (earlier revision)
\* User.findById, Plan.findById and the checks
PurchasePlanRead(p, u, pl) ==
  /\ Free(p)
  /\ users[u].exists
  /\ IF ~plans[pl].exists
       THEN Finish(p, "purchasePlan", "PlanNotFound")
     ELSE IF users[u].planId = pl
       THEN Finish(p, "purchasePlan", "AlreadyHasPlan")
     ELSE IF users[u].balance < plans[pl].cost
       THEN Finish(p, "purchasePlan", "InsufficientFunds")
     ELSE /\ Accepting
          /\ Goto(p, [Idle EXCEPT !.pc = "pp_save", !.user = u, !.arg = pl,
                                  !.doc = users[u], !.plan = plans[pl]])
  /\ UNCHANGED <<users, plans, videos, deposits, withdrawals, ledger, now>>

\* user.save(): balance, plan, activation date, the day's count zeroed and
\* the watch history emptied
PurchasePlanSave(p) ==
  LET u == req[p].user
  IN  /\ req[p].pc = "pp_save"
      /\ users' = [users EXCEPT ![u].balance = req[p].doc.balance - req[p].plan.cost,
                                ![u].planId = req[p].arg,
                                ![u].activationDate = now,
                                ![u].videosWatchedTodayCount = 0,
                                ![u].fullWatchedHistory = {},
                                ![u].v = IF req[p].doc.fullWatchedHistory = {}
                                         THEN @ ELSE @ + 1]
      /\ Goto(p, [req[p] EXCEPT !.pc = "pp_entry"])
      /\ UNCHANGED <<plans, videos, deposits, withdrawals, ledger, now>>

\* Transaction.create of the purchase
PurchasePlanEntry(p) ==
  LET u == req[p].user
  IN  /\ req[p].pc = "pp_entry"
      /\ ledger' = Post(ledger, Entry(u, -req[p].plan.cost, "plan_purchase", req[p].arg))
      /\ IF req[p].doc.referredBy # NoUser
           THEN Goto(p, [req[p] EXCEPT !.pc = "pp_referrer"])
           ELSE Finish(p, "purchasePlan", "ok")
      /\ UNCHANGED <<users, plans, videos, deposits, withdrawals, now>>

\* User.findById(user.referredBy)
PurchasePlanReferrer(p) ==
  LET ref == req[p].doc.referredBy
  IN  /\ req[p].pc = "pp_referrer"
      /\ IF users[ref].exists
           THEN Goto(p, [req[p] EXCEPT !.pc = "pp_bonus",
                                       !.amount = users[ref].balance])
           ELSE Finish(p, "purchasePlan", "ok")
      /\ UNCHANGED <<users, plans, videos, deposits, withdrawals, ledger, now>>

\* referrer.save() of the balance computed from the one read
PurchasePlanBonus(p) ==
  LET ref == req[p].doc.referredBy
  IN  /\ req[p].pc = "pp_bonus"
      /\ users' = [users EXCEPT ![ref].balance =
                     req[p].amount + Pct(req[p].plan.cost, ReferralPlanPct)]
      /\ Goto(p, [req[p] EXCEPT !.pc = "pp_bonus_entry"])
      /\ UNCHANGED <<plans, videos, deposits, withdrawals, ledger, now>>

\* Transaction.create of the referrer's bonus
PurchasePlanBonusEntry(p) ==
  LET ref == req[p].doc.referredBy
  IN  /\ req[p].pc = "pp_bonus_entry"
      /\ ledger' = Post(ledger, Entry(ref, Pct(req[p].plan.cost, ReferralPlanPct),
                                      "referral_plan_bonus", req[p].user))
      /\ Finish(p, "purchasePlan", "ok")
      /\ UNCHANGED <<users, plans, videos, deposits, withdrawals, now>>

\* -------------------------------------------------- markVideoAsWatched (earlier revision)
\* In this revision the account keeps dailyVideosWatched (dailyWatchedVideos
\* with the watchedAt dates), watchedVideosHistory (fullWatchedHistory),
\* videosWatchedTodayCount and lastRewardClaimDate (lastVideoReset); the plan
\* keeps videosPerDay (dailyVideoLimit) and dailyReward (rewardPerVideo).

\* user.currentPlan.dailyReward / user.currentPlan.videosPerDay
VideoReward(pl) == pl.rewardPerVideo \div pl.dailyVideoLimit

\* a new day: the count is zeroed and the claim date set, in memory
NewDayDoc(doc, t) ==
  IF doc.lastVideoReset = NoDate \/ StartOfDay(doc.lastVideoReset) # StartOfDay(t)
  THEN [doc EXCEPT !.videosWatchedTodayCount = 0, !.lastVideoReset = StartOfDay(t)]
  ELSE doc

\* alreadyWatchedToday || alreadyWatchedInPlan (the history holds only videos
\* watched since the plan was activated: purchasePlan empties it)
AlreadyWatched(doc, vid, t) ==
  \/ \E k \in 1..Len(doc.dailyWatchedVideos) :
        /\ doc.dailyWatchedVideos[k] = vid
        /\ StartOfDay(doc.dailyWatchedDates[k]) = StartOfDay(t)
  \/ vid \in doc.fullWatchedHistory

\* User.findById(..).populate('currentPlan'), Video.findById and the checks
MarkV1Read(p, u, vid) ==
  /\ Free(p)
  /\ users[u].exists
  /\ LET doc == NewDayDoc(users[u], now)
         pl  == IF doc.planId # NoPlan THEN plans[doc.planId] ELSE AbsentPlan
     IN  IF doc.planId = NoPlan \/ ~pl.exists
           THEN Finish(p, "markVideoAsWatched", "NoActivePlan")
         ELSE IF AlreadyWatched(doc, vid, now)
           THEN Finish(p, "markVideoAsWatched", "AlreadyCredited")
         ELSE IF doc.videosWatchedTodayCount >= pl.dailyVideoLimit
           THEN Finish(p, "markVideoAsWatched", "QuotaExhausted")
         ELSE /\ Accepting
              /\ Goto(p, [Idle EXCEPT !.pc = "mv_save", !.user = u, !.arg = vid,
                                      !.doc = doc, !.plan = pl])
  /\ UNCHANGED <<users, plans, videos, deposits, withdrawals, ledger, now>>

\* user.save(): the video pushed to both arrays, the count, the claim date
\* and the balance set from the document in memory
MarkV1Save(p) ==
  LET u   == req[p].user
      doc == req[p].doc
  IN  /\ req[p].pc = "mv_save"
      /\ users' = [users EXCEPT
             ![u].dailyWatchedVideos = Append(@, req[p].arg),
             ![u].dailyWatchedDates = Append(@, now),
             ![u].fullWatchedHistory = @ \cup {req[p].arg},
             ![u].videosWatchedTodayCount = doc.videosWatchedTodayCount + 1,
             ![u].lastVideoReset = doc.lastVideoReset,
             ![u].balance = doc.balance + VideoReward(req[p].plan),
             ![u].v = @ + 1]
      /\ Goto(p, [req[p] EXCEPT !.pc = "mv_entry"])
      /\ UNCHANGED <<plans, videos, deposits, withdrawals, ledger, now>>

\* Transaction.create of the reward
MarkV1Entry(p) ==
  LET u == req[p].user
  IN  /\ req[p].pc = "mv_entry"
      /\ ledger' = Post(ledger, Entry(u, VideoReward(req[p].plan), "video_reward",
                                      req[p].arg))
      /\ IF req[p].doc.referredBy # NoUser
           THEN Goto(p, [req[p] EXCEPT !.pc = "mv_referrer"])
           ELSE Finish(p, "markVideoAsWatched", "ok")
      /\ UNCHANGED <<users, plans, videos, deposits, withdrawals, now>>

\* User.findById(user.referredBy)
MarkV1Referrer(p) ==
  LET ref == req[p].doc.referredBy
  IN  /\ req[p].pc = "mv_referrer"
      /\ IF users[ref].exists
           THEN Goto(p, [req[p] EXCEPT !.pc = "mv_bonus",
                                       !.amount = users[ref].balance])
           ELSE Finish(p, "markVideoAsWatched", "ok")
      /\ UNCHANGED <<users, plans, videos, deposits, withdrawals, ledger, now>>

\* referrer.save() of the balance computed from the one read
MarkV1Bonus(p) ==
  LET ref == req[p].doc.referredBy
  IN  /\ req[p].pc = "mv_bonus"
      /\ users' = [users EXCEPT ![ref].balance =
                     req[p].amount + Pct(VideoReward(req[p].plan), ReferralDailyPct)]
      /\ Goto(p, [req[p] EXCEPT !.pc = "mv_bonus_entry"])
      /\ UNCHANGED <<plans, videos, deposits, withdrawals, ledger, now>>

\* Transaction.create of the referrer's bonus
MarkV1BonusEntry(p) ==
  LET ref == req[p].doc.referredBy
  IN  /\ req[p].pc = "mv_bonus_entry"
      /\ ledger' = Post(ledger, Entry(ref, Pct(VideoReward(req[p].plan), ReferralDailyPct),
                                      "referral_daily_bonus", req[p].user))
      /\ Finish(p, "markVideoAsWatched", "ok")
      /\ UNCHANGED <<users, plans, videos, deposits, withdrawals, now>>

\* an awaited write or read of the handler throws (the store is unreachable,
\* a document fails validation): the catch block answers 500 and nothing of
\* what was already saved is undone
MarkV1Catch(p) ==
  /\ req[p].pc \in {"mv_save", "mv_entry", "mv_referrer", "mv_bonus", "mv_bonus_entry"}
  /\ Finish(p, "markVideoAsWatched", "ServerError")
  /\ UNCHANGED <<users, plans, videos, deposits, withdrawals, ledger, now>>

\* -------------------------------------------------- adjustUserBalance (earlier revision)
\* the checks on amount and type, User.findById; finalAmount is the amount
\* for 'add' and its negation for 'remove'
AdjustUserBalanceRead(p, u, amt, type) ==
  /\ Free(p)
  /\ IF amt <= 0
       THEN Finish(p, "adjustUserBalance", "InvalidAmount")
     ELSE IF type \notin {"add", "remove"}
       THEN Finish(p, "adjustUserBalance", "InvalidType")
     ELSE IF ~users[u].exists
       THEN Finish(p, "adjustUserBalance", "UserNotFound")
     ELSE /\ Accepting
          /\ Goto(p, [Idle EXCEPT !.pc = "aub_save", !.user = u, !.arg = type,
                                  !.amount = IF type = "add" THEN amt ELSE -amt,
                                  !.doc = users[u]])
  /\ UNCHANGED <<users, plans, videos, deposits, withdrawals, ledger, now>>

\* user.save() of the balance computed from the one read
AdjustUserBalanceSave(p) ==
  LET u == req[p].user
  IN  /\ req[p].pc = "aub_save"
      /\ users' = [users EXCEPT ![u].balance = req[p].doc.balance + req[p].amount]
      /\ Goto(p, [req[p] EXCEPT !.pc = "aub_entry"])
      /\ UNCHANGED <<plans, videos, deposits, withdrawals, ledger, now>>

\* Transaction.create of the adjustment (relatedId names the administrator,
\* who is not one of the accounts followed)
AdjustUserBalanceEntry(p) ==
  /\ req[p].pc = "aub_entry"
  /\ ledger' = Post(ledger, Entry(req[p].user, req[p].amount, "manual_adjustment", NoRef))
  /\ Finish(p, "adjustUserBalance", "ok")
  /\ UNCHANGED <<users, plans, videos, deposits, withdrawals, now>>

\* -------------------------------------------------- requestWithdrawal (earlier revision)
\* the amount check, User.findById and the balance check
RequestWithdrawalV1Read(p, u, amt) ==
  /\ Free(p)
  /\ users[u].exists
  /\ IF amt <= 0
       THEN Finish(p, "requestWithdrawal", "InvalidAmount")
     ELSE IF users[u].balance < amt
       THEN Finish(p, "requestWithdrawal", "InsufficientFunds")
     ELSE /\ Accepting
          /\ Len(withdrawals) < MaxWithdrawals
          /\ Goto(p, [Idle EXCEPT !.pc = "rw_create", !.user = u, !.amount = amt,
                                  !.doc = users[u]])
  /\ UNCHANGED <<users, plans, videos, deposits, withdrawals, ledger, now>>

\* Withdrawal.create
RequestWithdrawalV1Create(p) ==
  /\ req[p].pc = "rw_create"
  /\ Len(withdrawals) < MaxWithdrawals
  /\ withdrawals' = Append(withdrawals,
        [user |-> req[p].user, amount |-> req[p].amount, status |-> "pending",
         adminNotes |-> NoNotes])
  /\ Goto(p, [req[p] EXCEPT !.pc = "rw_save", !.id = Len(withdrawals) + 1])
  /\ UNCHANGED <<users, plans, videos, deposits, ledger, now>>

\* user.save(): the amount is deducted at once
RequestWithdrawalV1Save(p) ==
  /\ req[p].pc = "rw_save"
  /\ users' = [users EXCEPT ![req[p].user].balance =
                                req[p].doc.balance - req[p].amount]
  /\ Goto(p, [req[p] EXCEPT !.pc = "rw_entry"])
  /\ UNCHANGED <<plans, videos, deposits, withdrawals, ledger, now>>

\* Transaction.create of the withdrawal
RequestWithdrawalV1Entry(p) ==
  /\ req[p].pc = "rw_entry"
  /\ ledger' = Post(ledger, Entry(req[p].user, -req[p].amount, "withdrawal",
                                  WdRef(req[p].id)))
  /\ Finish(p, "requestWithdrawal", "ok")
  /\ UNCHANGED <<users, plans, videos, deposits, withdrawals, now>>

\* -------------------------------------------------- updateWithdrawalStatus (earlier revision)
\* Withdrawal.findById and the pending check
UpdateWithdrawalStatusRead(p, i, status) ==
  /\ Free(p)
  /\ IF i > Len(withdrawals)
       THEN Finish(p, "updateWithdrawalStatus", "NotFound")
     ELSE IF withdrawals[i].status # "pending"
       THEN Finish(p, "updateWithdrawalStatus", "AlreadyProcessed")
     ELSE /\ Accepting
          /\ Goto(p, [Idle EXCEPT
                        !.pc = IF status = "rejected" THEN "uw_user" ELSE "uw_save",
                        !.id = i, !.arg = status,
                        !.user = withdrawals[i].user,
                        !.amount = withdrawals[i].amount])
  /\ UNCHANGED <<users, plans, videos, deposits, withdrawals, ledger, now>>

\* rejected: User.findById(withdrawal.userId)
UpdateWithdrawalStatusUser(p) ==
  /\ req[p].pc = "uw_user"
  /\ Goto(p, [req[p] EXCEPT !.pc = "uw_refund", !.doc = users[req[p].user]])
  /\ UNCHANGED <<users, plans, videos, deposits, withdrawals, ledger, now>>

\* rejected: user.save() gives the amount back
UpdateWithdrawalStatusRefund(p) ==
  /\ req[p].pc = "uw_refund"
  /\ users' = [users EXCEPT ![req[p].user].balance =
                                req[p].doc.balance + req[p].amount]
  /\ Goto(p, [req[p] EXCEPT !.pc = "uw_refund_entry"])
  /\ UNCHANGED <<plans, videos, deposits, withdrawals, ledger, now>>

\* rejected: Transaction.create of the reversal
UpdateWithdrawalStatusRefundEntry(p) ==
  /\ req[p].pc = "uw_refund_entry"
  /\ ledger' = Post(ledger, Entry(req[p].user, req[p].amount, "manual_adjustment",
                                  WdRef(req[p].id)))
  /\ Goto(p, [req[p] EXCEPT !.pc = "uw_save"])
  /\ UNCHANGED <<users, plans, videos, deposits, withdrawals, now>>

\* withdrawal.save() of the new status
UpdateWithdrawalStatusSave(p) ==
  /\ req[p].pc = "uw_save"
  /\ withdrawals' = [withdrawals EXCEPT ![req[p].id].status = req[p].arg]
  /\ Finish(p, "updateWithdrawalStatus", "ok")
  /\ UNCHANGED <<users, plans, videos, deposits, ledger, now>>

\* ================================================================ groupings
Register ==
  \/ \E p \in Procs, u \in Users, code \in Users \cup {NoUser} : RegisterUser(p, u, code)
  \/ \E p \in Procs : RegisterUserTx(p)

Catalog ==
  \E pl \in Plans, c \in PlanCosts, q \in Quotas, d \in Durations, r \in Rewards :
        CreatePlan(pl, c, q, d, r)

BuyPlan ==
  \/ \E p \in Procs, u \in Users, pl \in Plans : BuyPlanRead(p, u, pl)
  \/ \E p \in Procs : BuyPlanTx(p)

MarkVideoAsWatched ==
  \/ \E p \in Procs, u \in Users, vid \in Videos : MarkRead(p, u, vid)
  \/ \E p \in Procs : MarkReset(p)
  \/ \E p \in Procs : MarkTx(p)

Wallet ==
  \/ \E p \in Procs, u \in Users, amt \in DepositAmounts : RequestDeposit(p, u, amt)
  \/ \E p \in Procs, u \in Users, amt \in WithdrawAmounts : RequestWithdrawal(p, u, amt)

AdminDeposits ==
  \/ \E p \in Procs, i \in 1..MaxDeposits : ApproveDepositRead(p, i)
  \/ \E p \in Procs : ApproveDepositUser(p)
  \/ \E p \in Procs : ApproveDepositTx(p)
  \/ \E p \in Procs, i \in 1..MaxDeposits : RejectDepositRead(p, i)
  \/ \E p \in Procs : RejectDepositSave(p)

AdminWithdrawals ==
  \/ \E p \in Procs, i \in 1..MaxWithdrawals : ApproveWithdrawalRead(p, i)
  \/ \E p \in Procs : ApproveWithdrawalUser(p)
  \/ \E p \in Procs : ApproveWithdrawalTx(p)
  \/ \E p \in Procs, i \in 1..MaxWithdrawals : RejectWithdrawalRead(p, i)
  \/ \E p \in Procs : RejectWithdrawalSave(p)

ManualBalanceUpdate ==
  \/ \E p \in Procs, u \in Users, amt \in AdjustAmounts : ManualBalanceRead(p, u, amt)
  \/ \E p \in Procs : ManualBalanceTx(p)

\* the whole program
Next ==
  \/ Tick
  \/ Register
  \/ Catalog
  \/ BuyPlan
  \/ MarkVideoAsWatched
  \/ Wallet
  \/ AdminDeposits
  \/ AdminWithdrawals
  \/ ManualBalanceUpdate

Spec == Init /\ [][Next]_vars

\* the entitlement and referral engines: registration, catalog, plan
\* purchase and video rewards
NextEarn ==
  \/ Tick
  \/ Register
  \/ Catalog
  \/ BuyPlan
  \/ MarkVideoAsWatched

SpecEarn == Init /\ [][NextEarn]_vars

\* the reconciliation workflow: registration, plan purchase (a withdrawal
\* needs a plan), deposit and withdrawal requests and their resolution
NextFinance ==
  \/ Register
  \/ Catalog
  \/ BuyPlan
  \/ Wallet
  \/ AdminDeposits
  \/ AdminWithdrawals

SpecFinance == Init /\ [][NextFinance]_vars

\* manual adjustments beside registration and deposits
NextAdjust ==
  \/ Register
  \/ Wallet
  \/ AdminDeposits
  \/ ManualBalanceUpdate

SpecAdjust == Init /\ [][NextAdjust]_vars

\* withdrawal requests, also for more than any balance reached
NextWithdraw ==
  \/ Register
  \/ Catalog
  \/ BuyPlan
  \/ \E p \in Procs, u \in Users, amt \in OverdrawAmounts : RequestWithdrawal(p, u, amt)

SpecWithdraw == Init /\ [][NextWithdraw]_vars

\* registration of the first account, without a referral code
RegisterAlone ==
  \/ \E p \in Procs : RegisterUser(p, "A", NoUser)
  \/ \E p \in Procs : RegisterUserTx(p)

\* one account's deposit and withdrawal requests, with and without an
\* amount, and their resolution
WalletRequests ==
  \/ \E p \in Procs, u \in Users, amt \in RequestAmounts : RequestDeposit(p, u, amt)
  \/ \E p \in Procs, u \in Users, amt \in RequestAmounts : RequestWithdrawal(p, u, amt)

NextWallet ==
  \/ RegisterAlone
  \/ Catalog
  \/ BuyPlan
  \/ WalletRequests
  \/ AdminDeposits
  \/ AdminWithdrawals

SpecWallet == Init /\ [][NextWallet]_vars

DeleteVideo ==
  \/ \E p \in Procs, vid \in Videos : DeleteVideoRead(p, vid)
  \/ \E p \in Procs : DeleteVideoRemove(p)
  \/ \E p \in Procs : DeleteVideoPull(p)

\* one account's earning path while videos are removed from the catalog
NextLibrary ==
  \/ Tick
  \/ RegisterAlone
  \/ Catalog
  \/ BuyPlan
  \/ MarkVideoAsWatched
  \/ DeleteVideo

SpecLibrary == Init /\ [][NextLibrary]_vars

\* one account's plan and video requests while the administrator creates,
\* withdraws from sale and deletes plans
NextPlans ==
  \/ RegisterAlone
  \/ \E pl \in PlanIds, c \in PlanCosts, q \in Quotas, d \in Durations, r \in Rewards :
        CreatePlan(pl, c, q, d, r)
  \/ \E pl \in PlanIds, a \in BOOLEAN : SetPlanActive(pl, a)
  \/ \E pl \in PlanIds : DeletePlan(pl)
  \/ \E p \in Procs, u \in Users, pl \in PlanIds : BuyPlanRead(p, u, pl)
  \/ \E p \in Procs : BuyPlanTx(p)
  \/ \E p \in Procs, u \in Users, vid \in VideosV1 : MarkRead(p, u, vid)
  \/ \E p \in Procs : MarkReset(p)
  \/ \E p \in Procs : MarkTx(p)

SpecPlans == Init /\ [][NextPlans]_vars

\* one account's login and money-affecting requests while the administrator
\* blocks and unblocks it
NextBlock ==
  \/ RegisterAlone
  \/ Catalog
  \/ \E u \in Users : ToggleBlockUser(u)
  \/ \E p \in Procs, u \in Users : LoginUser(p, u)
  \/ BuyPlan
  \/ \E p \in Procs, u \in Users, vid \in VideosV1 : MarkRead(p, u, vid)
  \/ \E p \in Procs : MarkReset(p)
  \/ \E p \in Procs : MarkTx(p)
  \/ Wallet

SpecBlock == Init /\ [][NextBlock]_vars

\* the clock advances beyond the bound of the other specifications, past
\* the expiry of a plan bought at the first or second tick
TickPastExpiry ==
  /\ MaxTime <= now /\ now < MaxLateTime
  /\ now' = now + 1
  /\ UNCHANGED <<users, plans, videos, deposits, withdrawals, ledger, req, resp>>

GetDailyVideos ==
  \/ \E p \in Procs, u \in Users : GetDailyVideosRead(p, u)
  \/ \E p \in Procs : GetDailyVideosReset(p)

\* the video routes, until after a plan has expired
NextDaily ==
  \/ Tick
  \/ TickPastExpiry
  \/ RegisterAlone
  \/ Catalog
  \/ BuyPlan
  \/ MarkVideoAsWatched
  \/ GetDailyVideos

SpecDaily == Init /\ [][NextDaily]_vars

\* the steps of the resolving handlers after their first
AdminFinanceSteps ==
  \/ \E p \in Procs : ApproveDepositUser(p)
  \/ \E p \in Procs : ApproveDepositTx(p)
  \/ \E p \in Procs : RejectDepositSave(p)
  \/ \E p \in Procs : ApproveWithdrawalUser(p)
  \/ \E p \in Procs : ApproveWithdrawalTx(p)
  \/ \E p \in Procs : RejectWithdrawalSave(p)

\* one account's wallet requests and the resolving routes behind protect and
\* admin, requested by that account or by nobody
NextAdmin ==
  \/ RegisterAlone
  \/ \E u \in Users : Promote(u)
  \/ Catalog
  \/ BuyPlan
  \/ Wallet
  \/ \E p \in Procs, actor \in Actors : AdminFinanceRequest(p, actor)
  \/ AdminFinanceSteps

SpecAdmin == Init /\ [][NextAdmin]_vars

\* the earning path with the catalog edited while subscriptions run
EditPlan ==
  \E pl \in Plans, q \in EditedQuotas, r \in EditedRewards : UpdatePlan(pl, q, r)

NextTerms ==
  \/ Tick
  \/ Register
  \/ Catalog
  \/ BuyPlan
  \/ MarkVideoAsWatched
  \/ EditPlan

SpecTerms == Init /\ [][NextTerms]_vars

\* one account's plan followed past its expiry: earning, withdrawal
\* requests and purchases, the catalog being edited meanwhile
NextExpiry ==
  \/ Tick
  \/ TickPastExpiry
  \/ RegisterAlone
  \/ Catalog
  \/ EditPlan
  \/ BuyPlan
  \/ MarkVideoAsWatched
  \/ \E p \in Procs, u \in Users, amt \in OverdrawAmounts : RequestWithdrawal(p, u, amt)

SpecExpiry == Init /\ [][NextExpiry]_vars

\* the earlier revision of the controllers
PurchasePlan ==
  \/ \E p \in Procs, u \in Users, pl \in Plans : PurchasePlanRead(p, u, pl)
  \/ \E p \in Procs : PurchasePlanSave(p)
  \/ \E p \in Procs : PurchasePlanEntry(p)
  \/ \E p \in Procs : PurchasePlanReferrer(p)
  \/ \E p \in Procs : PurchasePlanBonus(p)
  \/ \E p \in Procs : PurchasePlanBonusEntry(p)

RequestWithdrawalV1 ==
  \/ \E p \in Procs, u \in Users, amt \in WithdrawAmounts :
        RequestWithdrawalV1Read(p, u, amt)
  \/ \E p \in Procs : RequestWithdrawalV1Create(p)
  \/ \E p \in Procs : RequestWithdrawalV1Save(p)
  \/ \E p \in Procs : RequestWithdrawalV1Entry(p)

UpdateWithdrawalStatus ==
  \/ \E p \in Procs, i \in 1..MaxWithdrawals, status \in {"approved", "rejected"} :
        UpdateWithdrawalStatusRead(p, i, status)
  \/ \E p \in Procs : UpdateWithdrawalStatusUser(p)
  \/ \E p \in Procs : UpdateWithdrawalStatusRefund(p)
  \/ \E p \in Procs : UpdateWithdrawalStatusRefundEntry(p)
  \/ \E p \in Procs : UpdateWithdrawalStatusSave(p)

NextV1 ==
  \/ \E p \in Procs, u \in Users, code \in Users \cup {NoUser} :
        RegisterUserV1(p, u, code)
  \/ \E pl \in Plans, c \in PlanCosts, q \in Quotas, d \in Durations, r \in Rewards :
        CreatePlanV1(pl, c, q, d, r)
  \/ PurchasePlan
  \/ RequestWithdrawalV1
  \/ UpdateWithdrawalStatus

SpecV1 == Init /\ [][NextV1]_vars

AdjustUserBalance ==
  \/ \E p \in Procs, u \in Users, amt \in AdjustV1Amounts, type \in AdjustTypes :
        AdjustUserBalanceRead(p, u, amt, type)
  \/ \E p \in Procs : AdjustUserBalanceSave(p)
  \/ \E p \in Procs : AdjustUserBalanceEntry(p)

\* manual adjustments of the earlier revision beside the registration of
\* the first account
NextV1Adjust ==
  \/ \E p \in Procs : RegisterUserV1(p, "A", NoUser)
  \/ AdjustUserBalance

SpecV1Adjust == Init /\ [][NextV1Adjust]_vars

MarkVideoAsWatchedV1 ==
  \/ \E p \in Procs, u \in Users, vid \in VideosV1 : MarkV1Read(p, u, vid)
  \/ \E p \in Procs : MarkV1Save(p)
  \/ \E p \in Procs : MarkV1Entry(p)
  \/ \E p \in Procs : MarkV1Referrer(p)
  \/ \E p \in Procs : MarkV1Bonus(p)
  \/ \E p \in Procs : MarkV1BonusEntry(p)
  \/ \E p \in Procs : MarkV1Catch(p)

\* the earning path of the earlier revision, with failing store operations
NextV1Watch ==
  \/ \E p \in Procs, u \in Users, code \in Users \cup {NoUser} : RegisterUserV1(p, u, code)
  \/ \E pl \in Plans, c \in PlanCosts, q \in Quotas, d \in Durations, r \in Rewards :
        CreatePlanV1(pl, c, q, d, r)
  \/ PurchasePlan
  \/ MarkVideoAsWatchedV1

SpecV1Watch == Init /\ [][NextV1Watch]_vars

\* ------------------------------------------------------------ properties
Quiescent == \A p \in Procs : req[p].pc = "idle"

EntriesOf(u, type) == {e \in BagToSet(ledger) : e.user = u /\ e.type = type}

\* C1: for every account the stored balance equals the sum of the amounts of
\* its completed ledger entries (checked at the states where no request is
\* in progress, which are among the states the claim covers)
C1_BalanceEqualsLedgerSum ==
  Quiescent => \A u \in Users : users[u].exists => users[u].balance = LedgerSum(u)

\* C2: every account's balance is >= 0 in every reachable state
C2_BalanceNonNegative == \A u \in Users : users[u].balance >= 0

\* C3: plan purchases are never posted against funds that could pay for only
\* some of them: the cost of an account's plan_purchase entries never exceeds
\* the total of the credits posted to the account
C3_NoDoubleSpend ==
  \A u \in Users :
    -SumAmounts(ledger, EntriesOf(u, "plan_purchase"))
       <= SumAmounts(ledger, {e \in BagToSet(ledger) : e.user = u /\ e.amount > 0})

\* C5: within one business day at most one daily_reward entry is posted for
\* one account and one video
C5_OneRewardPerVideoPerDay ==
  now < TicksPerDay =>
    \A u \in Users, vid \in Videos :
      CountIn(ledger, {e \in EntriesOf(u, "daily_reward") : e.ref = vid}) <= 1

\* C8: a deposit is credited exactly once: at most one deposit ledger entry
\* refers to one deposit request, whatever the interleaving of approvals
C8_DepositCreditedOnce ==
  \A i \in 1..Len(deposits) :
    CountIn(ledger, {e \in BagToSet(ledger) :
                       e.type = "deposit" /\ e.ref = DepRef(i)}) <= 1

\* C9: once a deposit or withdrawal request is approved or rejected its
\* status never changes again
C9_ResolvedIsTerminal ==
  [][ /\ \A i \in 1..Len(deposits) :
           deposits[i].status # "pending" => deposits'[i].status = deposits[i].status
      /\ \A i \in 1..Len(withdrawals) :
           withdrawals[i].status # "pending"
             => withdrawals'[i].status = withdrawals[i].status ]_vars

\* ---- notions the claims are stated in
BusinessDay(t) == t \div TicksPerDay

\* the account's last reset was made on the current business day
ResetToday(u) ==
  users[u].lastVideoReset # NoDate
    /\ BusinessDay(users[u].lastVideoReset) = BusinessDay(now)

\* the account holds an existing plan that has not expired
HasActivePlan(u) ==
  /\ users[u].exists
  /\ users[u].planId # NoPlan
  /\ plans[users[u].planId].exists
  /\ users[u].expiryDate >= now

QuotaOf(u) == plans[users[u].planId].dailyVideoLimit

WatchedToday(u, vid) == InSeq(vid, users[u].dailyWatchedVideos)

RewardCount(l, u, vid) ==
  CountIn(l, {e \in BagToSet(l) :
                 e.user = u /\ e.type = "daily_reward" /\ e.ref = vid})

RewardsOf(l, u) ==
  CountIn(l, {e \in BagToSet(l) : e.user = u /\ e.type = "daily_reward"})

\* a request for video vid by account u is received and refused with the
\* given error, and nothing stored changes
Refused(p, result) ==
  /\ resp' = [op |-> "markVideoAsWatched", result |-> result]
  /\ req'[p] = Idle
  /\ UNCHANGED <<users, ledger>>

\* a successful markVideoAsWatched commit posts exactly one daily_reward
\* entry, for the watched video, and records the video as watched today
OneRewardPosted(p) ==
  LET u == req[p].user
      vid == req[p].arg
  IN  MarkTx(p) =>
        /\ RewardCount(ledger', u, vid) = RewardCount(ledger, u, vid) + 1
        /\ RewardsOf(ledger', u) = RewardsOf(ledger, u) + 1
        /\ Len(users'[u].dailyWatchedVideos) = Len(users[u].dailyWatchedVideos) + 1
        /\ InSeq(vid, users'[u].dailyWatchedVideos)

\* C4 as stated: for every daily quota >= 1 the second call for a video
\* already credited on the same business day fails with AlreadyCredited,
\* posts no entry and changes no balance
C4_SecondCallAlreadyCredited ==
  [][ \A p \in Procs, u \in Users, vid \in Videos :
        ( /\ MarkRead(p, u, vid)
          /\ HasActivePlan(u) /\ QuotaOf(u) >= 1
          /\ ResetToday(u) /\ WatchedToday(u, vid) )
        => Refused(p, "AlreadyCredited") ]_vars

\* C4 amended: the first call posts exactly one daily_reward entry; a second
\* call for the same video on the same business day, the plan still being
\* active, posts no entry and changes no balance, and fails with
\* AlreadyCredited when the quota is not yet used up and with QuotaExhausted
\* when it is (always so for a quota of 1)
C4_NoDoubleCredit ==
  [][ \A p \in Procs :
        /\ OneRewardPosted(p)
        /\ \A u \in Users, vid \in Videos :
             ( /\ MarkRead(p, u, vid)
               /\ HasActivePlan(u) /\ QuotaOf(u) >= 1
               /\ ResetToday(u) /\ WatchedToday(u, vid) )
             => IF Len(users[u].dailyWatchedVideos) >= QuotaOf(u)
                  THEN Refused(p, "QuotaExhausted")
                  ELSE Refused(p, "AlreadyCredited") ]_vars

\* C4 witness: with a quota of 2, a video was credited once and the second
\* call for it was refused with AlreadyCredited
C4_Witness ==
  /\ resp = [op |-> "markVideoAsWatched", result |-> "AlreadyCredited"]
  /\ \E u \in Users, vid \in Videos :
       /\ HasActivePlan(u) /\ QuotaOf(u) = 2
       /\ users[u].dailyWatchedVideos = <<vid>>
       /\ RewardCount(ledger, u, vid) = 1

\* C6: with daily quota n, a call received once n videos are recorded for
\* the current business day fails with QuotaExhausted and changes nothing
\* (each successful call records exactly one); a call received after the
\* day boundary is not refused for quota: its reset empties the day's list
\* and the call proceeds to be credited
C6_QuotaBoundary ==
  [][ \A p \in Procs :
        /\ OneRewardPosted(p)
        /\ \A u \in Users, vid \in Videos :
             (MarkRead(p, u, vid) /\ HasActivePlan(u)) =>
                /\ (ResetToday(u) /\ Len(users[u].dailyWatchedVideos) >= QuotaOf(u))
                     => Refused(p, "QuotaExhausted")
                /\ (~ResetToday(u) /\ QuotaOf(u) >= 1)
                     => /\ req'[p].pc = "mark_reset"
                        /\ req'[p].doc.dailyWatchedVideos = <<>>
        /\ (/\ MarkReset(p) /\ req[p].plan.dailyVideoLimit >= 1
            /\ users[req[p].user].v = req[p].doc.v) =>
                /\ users'[req[p].user].dailyWatchedVideos = <<>>
                /\ req'[p].pc = "mark_tx" ]_vars

\* C6 witness: with a quota of 1 an account was credited on one business
\* day, then again after the day boundary, and its next call that day was
\* refused with QuotaExhausted
C6_Witness ==
  /\ resp = [op |-> "markVideoAsWatched", result |-> "QuotaExhausted"]
  /\ BusinessDay(now) >= 1
  /\ \E u \in Users :
       /\ HasActivePlan(u) /\ QuotaOf(u) = 1
       /\ ResetToday(u)
       /\ Len(users[u].dailyWatchedVideos) = 1
       /\ RewardsOf(ledger, u) = 2

\* a resolution request is refused as already processed and nothing stored
\* changes
RefusedProcessed(p, op) ==
  /\ resp' = [op |-> op, result |-> "AlreadyProcessed"]
  /\ req'[p] = Idle
  /\ UNCHANGED <<users, deposits, withdrawals, ledger>>

\* C7: approveDeposit, rejectDeposit, approveWithdrawal and rejectWithdrawal
\* received for a request that is already approved or rejected fail with
\* AlreadyProcessed, post no entry and change no status and no balance
C7_ResolvedRequestsRefuse ==
  [][ \A p \in Procs :
        /\ \A i \in 1..Len(deposits) :
             deposits[i].status # "pending" =>
               /\ ApproveDepositRead(p, i) => RefusedProcessed(p, "approveDeposit")
               /\ RejectDepositRead(p, i) => RefusedProcessed(p, "rejectDeposit")
        /\ \A i \in 1..Len(withdrawals) :
             withdrawals[i].status # "pending" =>
               /\ ApproveWithdrawalRead(p, i)
                    => RefusedProcessed(p, "approveWithdrawal")
               /\ RejectWithdrawalRead(p, i)
                    => RefusedProcessed(p, "rejectWithdrawal") ]_vars

\* C7 witness: an approved deposit, credited by one entry, whose second
\* approval was refused
C7_Witness ==
  /\ resp = [op |-> "approveDeposit", result |-> "AlreadyProcessed"]
  /\ Len(deposits) >= 1
  /\ deposits[1].status = "approved"
  /\ CountIn(ledger, {e \in BagToSet(ledger) :
                        e.type = "deposit" /\ e.ref = DepRef(1)}) = 1

\* C10: when an account with an existing referrer buys a plan of cost c,
\* the referrer's balance rises by exactly 10% of c through one
\* referral_plan entry, the buyer's balance falls by exactly c through one
\* plan_purchase entry, and the buyer's plan is active afterwards
C10_ReferralPropagation ==
  [][ \A p \in Procs :
        LET B == req[p].user
            A == users[B].referredBy
            c == req[p].plan.cost
            Count(l, u, type) ==
              CountIn(l, {e \in BagToSet(l) : e.user = u /\ e.type = type})
        IN  (BuyPlanTx(p) /\ A # NoUser /\ users[A].exists) =>
              /\ 100 * (users'[A].balance - users[A].balance) = 10 * c
              /\ Count(ledger', A, "referral_plan") = Count(ledger, A, "referral_plan") + 1
              /\ users'[B].balance = users[B].balance - c
              /\ Count(ledger', B, "plan_purchase") = Count(ledger, B, "plan_purchase") + 1
              /\ users'[B].planId # NoPlan
              /\ users'[B].expiryDate > now' ]_vars

\* ---- referral bonuses
CountOf(l, u, type) ==
  CountIn(l, {e \in BagToSet(l) : e.user = u /\ e.type = type})

\* C11: when an account B with an existing referrer A is credited a video
\* reward r, A's balance rises by exactly 5% of r through exactly one
\* referral_daily entry, and B receives exactly one daily_reward entry of r
C11_DailyReferralBonus ==
  [][ \A p \in Procs :
        LET B == req[p].user
            A == users[B].referredBy
            r == req[p].plan.rewardPerVideo
            bonusEntry  == Entry(A, Pct(r, ReferralDailyPct), "referral_daily", B)
            rewardEntry == Entry(B, r, "daily_reward", req[p].arg)
        IN  (MarkTx(p) /\ A # NoUser /\ users[A].exists) =>
              /\ 100 * (users'[A].balance - users[A].balance) = ReferralDailyPct * r
              /\ CountOf(ledger', A, "referral_daily")
                   = CountOf(ledger, A, "referral_daily") + 1
              /\ CopiesIn(bonusEntry, ledger') = CopiesIn(bonusEntry, ledger) + 1
              /\ CountOf(ledger', B, "daily_reward")
                   = CountOf(ledger, B, "daily_reward") + 1
              /\ CopiesIn(rewardEntry, ledger') = CopiesIn(rewardEntry, ledger) + 1
              /\ BagCardinality(ledger') = BagCardinality(ledger) + 2 ]_vars

\* C11 witness: B, referred by A, was credited one reward and A holds one
\* referral_daily entry of 5% of it
C11_Witness ==
  /\ resp = [op |-> "markVideoAsWatched", result |-> "ok"]
  /\ users["B"].exists /\ users["B"].referredBy = "A"
  /\ CountOf(ledger, "B", "daily_reward") = 1
  /\ CountOf(ledger, "A", "referral_daily") = 1
  /\ \E e \in BagToSet(ledger) :
       e.user = "A" /\ e.type = "referral_daily" /\ 100 * e.amount = 5 * 20
  /\ users["A"].balance = SignupBonus + 4 + 1

\* number of bonus entries of the given types posted to the referrer of B
\* for B's operations
BonusesFor(B, types) ==
  CountIn(ledger, {e \in BagToSet(ledger) :
                     /\ e.user = users[B].referredBy
                     /\ e.type \in types
                     /\ e.ref = B})

\* C12: for an account with an existing referrer no state shows a
\* plan_purchase or daily_reward entry of the account without the referrer's
\* bonus entry for it, nor a bonus entry without the primary entry
C12_BonusAtomicWithPrimary ==
  \A B \in Users :
    (users[B].exists /\ users[B].referredBy # NoUser
       /\ users[users[B].referredBy].exists) =>
      /\ CountOf(ledger, B, "plan_purchase")
           = BonusesFor(B, {"referral_plan", "referral_plan_bonus"})
      /\ CountOf(ledger, B, "daily_reward") = BonusesFor(B, {"referral_daily"})

\* the acting account has no referrer, or its referrer does not exist
NoReferrerFound(u) ==
  users[u].referredBy = NoUser \/ ~users[users[u].referredBy].exists

\* C13: when the acting account has no referrer (or the referrer account is
\* missing) buyPlan and markVideoAsWatched succeed with their full primary
\* effect: the one primary entry is the only entry posted, the plan is
\* activated / the video recorded, the balance moves by the primary amount
\* from the balance the request read, and no other account changes
C13_PrimaryWithoutReferrer ==
  [][ \A p \in Procs :
        LET u   == req[p].user
            doc == req[p].doc
            pl  == req[p].plan
        IN  /\ (BuyPlanTx(p) /\ NoReferrerFound(u)) =>
                 /\ resp' = [op |-> "buyPlan", result |-> "ok"]
                 /\ ledger' = Post(ledger, Entry(u, -pl.cost, "plan_purchase", NoRef))
                 /\ \A w \in Users \ {u} : users'[w] = users[w]
                 /\ users'[u].planId = req[p].arg
                 /\ users'[u].expiryDate > now
                 /\ users'[u].balance = doc.balance - pl.cost
                 /\ (users[u].balance = doc.balance
                       => users'[u].balance = users[u].balance - pl.cost)
            /\ (MarkTx(p) /\ NoReferrerFound(u)) =>
                 /\ resp' = [op |-> "markVideoAsWatched", result |-> "ok"]
                 /\ ledger' = Post(ledger, Entry(u, pl.rewardPerVideo,
                                                 "daily_reward", req[p].arg))
                 /\ \A w \in Users \ {u} : users'[w] = users[w]
                 /\ InSeq(req[p].arg, users'[u].dailyWatchedVideos)
                 /\ users'[u].balance = doc.balance + pl.rewardPerVideo
                 /\ (users[u].balance = doc.balance
                       => users'[u].balance = users[u].balance + pl.rewardPerVideo)
      ]_vars

\* C13 witness: an account without referrer bought a plan and was credited
\* a reward, and the ledger holds no referral entry
C13_Witness ==
  /\ resp = [op |-> "markVideoAsWatched", result |-> "ok"]
  /\ \E u \in Users :
       /\ users[u].exists /\ users[u].referredBy = NoUser
       /\ CountOf(ledger, u, "plan_purchase") = 1
       /\ CountOf(ledger, u, "daily_reward") = 1
       /\ users[u].balance = SignupBonus - 40 + 20
  /\ \A e \in BagToSet(ledger) : e.type \notin {"referral_plan", "referral_daily"}

\* C14: every existing account has exactly one signup_bonus entry, of the
\* signup bonus it started with; no account exists without it
C14_SignupBonusEntry ==
  \A u \in Users :
    users[u].exists =>
      /\ CountOf(ledger, u, "signup_bonus") = 1
      /\ CopiesIn(Entry(u, SignupBonus, "signup_bonus", NoRef), ledger) = 1

\* ---- withdrawals
\* the account holds no plan, or its plan has expired
NoUnexpiredPlan(u) == users[u].planId = NoPlan \/ DateLt(users[u].expiryDate, now)

\* a withdrawal request is refused with the given error and nothing stored
\* changes
WithdrawalRefused(p, result) ==
  /\ resp' = [op |-> "requestWithdrawal", result |-> result]
  /\ req'[p] = Idle
  /\ UNCHANGED <<users, withdrawals, ledger>>

\* C15 as stated: a requestWithdrawal for more than the account's balance is
\* refused with InsufficientFunds; nothing is stored, posted or changed
C15_OverdrawInsufficientFunds ==
  [][ \A p \in Procs, u \in Users, amt \in WithdrawAmounts \cup OverdrawAmounts :
        (RequestWithdrawal(p, u, amt) /\ amt > users[u].balance)
          => WithdrawalRefused(p, "InsufficientFunds") ]_vars

\* C15 amended: a requestWithdrawal for more than the account's balance is
\* always refused, storing no request, posting no entry and changing no
\* balance; the error is InsufficientFunds when the account holds an
\* unexpired plan and NoActivePlan when it does not
C15_OverdrawRefused ==
  [][ \A p \in Procs, u \in Users, amt \in WithdrawAmounts \cup OverdrawAmounts :
        (RequestWithdrawal(p, u, amt) /\ amt > users[u].balance)
          => IF NoUnexpiredPlan(u)
               THEN WithdrawalRefused(p, "NoActivePlan")
               ELSE WithdrawalRefused(p, "InsufficientFunds") ]_vars

\* C15 witness: an account with an unexpired plan and a balance of 10 asked
\* for more and was refused with InsufficientFunds; no request is stored
C15_Witness ==
  /\ resp = [op |-> "requestWithdrawal", result |-> "InsufficientFunds"]
  /\ withdrawals = <<>>
  /\ \E u \in Users :
       /\ users[u].exists /\ ~NoUnexpiredPlan(u)
       /\ users[u].balance = SignupBonus - 40
       /\ CountOf(ledger, u, "withdrawal") = 0

\* C16: approveWithdrawal that finds the account's balance below the
\* withdrawal's amount (the balance it reads at approval) changes no balance
\* and posts no entry, and commits the withdrawal as rejected with the
\* reason 'insufficient balance at approval' before raising its error
C16_AutoRejectAtApproval ==
  [][ \A p \in Procs :
        LET i == req[p].id
            u == req[p].user
        IN  /\ ApproveWithdrawalUser(p) => req'[p].doc.balance = users[u].balance
            /\ (ApproveWithdrawalTx(p) /\ req[p].doc.balance < req[p].amount) =>
                 /\ UNCHANGED <<users, ledger>>
                 /\ withdrawals'[i].status = "rejected"
                 /\ withdrawals'[i].adminNotes
                      = "Saldo insuficiente no momento da aprovacao."
                 /\ resp' = [op |-> "approveWithdrawal", result |-> "InsufficientFunds"]
      ]_vars

\* C16 witness: a withdrawal of 20 was rejected at approval for an account
\* holding less, and no withdrawal entry exists
C16_Witness ==
  /\ resp = [op |-> "approveWithdrawal", result |-> "InsufficientFunds"]
  /\ Len(withdrawals) = 1
  /\ withdrawals[1].status = "rejected"
  /\ withdrawals[1].adminNotes = "Saldo insuficiente no momento da aprovacao."
  /\ withdrawals[1].amount > users[withdrawals[1].user].balance
  /\ \A e \in BagToSet(ledger) : e.type # "withdrawal"

\* C17: one deduction discipline, deduction on approval only: while a
\* withdrawal request is pending no withdrawal entry has been posted for it
\* (creating the request posts nothing and deducts nothing)
C17_DeductedOnlyOnApproval ==
  \A i \in 1..Len(withdrawals) :
    withdrawals[i].status = "pending" =>
      CountIn(ledger, {e \in BagToSet(ledger) :
                         e.type = "withdrawal" /\ e.ref = WdRef(i)}) = 0

\* ---- deposits
DepositEntries(l) == CountIn(l, {e \in BagToSet(l) : e.type = "deposit"})

\* C18: requestDeposit and rejectDeposit leave every account and the ledger
\* unchanged; a deposit entry is posted only by an approval's commit
C18_DepositEffectOnlyOnApproval ==
  [][ /\ \A p \in Procs :
           /\ \A u \in Users, amt \in DepositAmounts :
                RequestDeposit(p, u, amt) => UNCHANGED <<users, ledger>>
           /\ \A i \in 1..MaxDeposits :
                RejectDepositRead(p, i) => UNCHANGED <<users, ledger, deposits>>
           /\ RejectDepositSave(p) =>
                /\ UNCHANGED <<users, ledger>>
                /\ deposits'[req[p].id].status = "rejected"
      /\ DepositEntries(ledger') # DepositEntries(ledger)
           => \E p \in Procs : ApproveDepositTx(p) ]_vars

\* C18 witness: a deposit was requested and rejected; its account still has
\* its signup balance and the ledger holds no deposit entry
C18_Witness ==
  /\ resp = [op |-> "rejectDeposit", result |-> "ok"]
  /\ Len(deposits) = 1
  /\ deposits[1].status = "rejected"
  /\ users[deposits[1].user].balance = SignupBonus
  /\ DepositEntries(ledger) = 0

\* ---- plan purchase
\* C19: buyPlan is refused, changing no account and posting nothing, when
\* the plan is missing or inactive, or the account holds a plan whose expiry
\* is still ahead, or the balance is below the cost; and no purchase is
\* committed for an account that holds an unexpired plan
C19_BuyPlanRefusals ==
  [][ \A p \in Procs :
        /\ \A u \in Users, pl \in Plans :
             ( /\ BuyPlanRead(p, u, pl)
               /\ \/ ~plans[pl].exists \/ ~plans[pl].isActive
                  \/ DateLt(now, users[u].expiryDate)
                  \/ users[u].balance < plans[pl].cost )
             => /\ req'[p] = Idle
                /\ resp'.op = "buyPlan" /\ resp'.result # "ok"
                /\ UNCHANGED <<users, ledger>>
        /\ BuyPlanTx(p) => ~DateLt(now, users[req[p].user].expiryDate) ]_vars

\* C20: a successful buyPlan leaves no video counted against the current
\* business day: the daily set is empty, or is one a reset will still empty
\* before the next quota check
C20_PurchaseClearsDailySet ==
  [][ \A p \in Procs :
        LET u == req[p].user
        IN  BuyPlanTx(p) =>
              \/ users'[u].dailyWatchedVideos = <<>>
              \/ users'[u].lastVideoReset = NoDate
              \/ BusinessDay(users'[u].lastVideoReset) # BusinessDay(now) ]_vars

\* the reward markVideoAsWatched credits to an account holding a plan
RewardOf(u) == plans[users[u].planId].rewardPerVideo

\* C21: an admin edit of a plan leaves the terms applied to an account that
\* bought the plan before the edit as they were at purchase: the daily quota
\* markVideoAsWatched enforces for it and the reward it credits do not change
C21_TermsKeptAfterEdit ==
  [][ \A u \in Users :
        (HasActivePlan(u) /\ users'[u].planId = users[u].planId
                          /\ users'[u].activationDate = users[u].activationDate)
          => /\ QuotaOf(u)' = QuotaOf(u)
             /\ RewardOf(u)' = RewardOf(u) ]_vars

\* the call of checkAndResetDailyVideos made by a request that has just read
\* account u: the reset branch is taken exactly when no reset is recorded or
\* the recorded one is of an earlier business day; it empties the list and
\* stamps the time of the call; otherwise nothing is assigned or saved
ResetExactlyWhenDue(p, u) ==
  IF users[u].lastVideoReset = NoDate
        \/ BusinessDay(users[u].lastVideoReset) < BusinessDay(now)
  THEN /\ req'[p].pc \in {"mark_reset", "daily_reset"}
       /\ req'[p].doc.dailyWatchedVideos = <<>>
       /\ req'[p].doc.lastVideoReset = now
  ELSE /\ req'[p].pc \notin {"mark_reset", "daily_reset"}
       /\ users' = users

\* the save of a reset writes the stamp of the call and, the list not having
\* been written since it was read, leaves it empty; nothing else of the
\* account changes
ResetSavedAsAssigned(p) ==
  LET u == req[p].user
  IN  users' # users =>
        /\ users'[u].lastVideoReset = req[p].doc.lastVideoReset
        /\ users[u].v = req[p].doc.v => users'[u].dailyWatchedVideos = <<>>
        /\ users' = [users EXCEPT
               ![u].lastVideoReset = users'[u].lastVideoReset,
               ![u].dailyWatchedVideos = users'[u].dailyWatchedVideos,
               ![u].dailyWatchedDates = users'[u].dailyWatchedDates,
               ![u].v = users'[u].v]

\* C22: checkAndResetDailyVideos empties the day's list and sets
\* lastVideoReset to the time of the call exactly when lastVideoReset is
\* unset or before the start of the current business day; called again in
\* the business day of the recorded reset it changes nothing
C22_ResetExactAndIdempotent ==
  [][ \A p \in Procs :
        /\ \A u \in Users :
             /\ \A vid \in Videos :
                  (MarkRead(p, u, vid) /\ HasActivePlan(u)) => ResetExactlyWhenDue(p, u)
             /\ (GetDailyVideosRead(p, u) /\ HasActivePlan(u))
                  => ResetExactlyWhenDue(p, u)
        /\ (MarkReset(p) \/ GetDailyVideosReset(p)) => ResetSavedAsAssigned(p) ]_vars

\* C22 witness: on a later business day the list was reset and filled up to
\* the quota again, and a further call that day answered without resetting
C22_Witness ==
  /\ BusinessDay(now) >= 1
  /\ resp.op = "getDailyVideos" /\ resp.result = "AllWatched"
  /\ \E u \in Users :
       /\ HasActivePlan(u) /\ ResetToday(u)
       /\ Len(users[u].dailyWatchedVideos) = QuotaOf(u)
       /\ \A k \in 1..Len(users[u].dailyWatchedDates) :
            BusinessDay(users[u].dailyWatchedDates[k]) = BusinessDay(now)
       /\ users[u].fullWatchedHistory = Videos

\* C23: the save of a daily reset, by either handler and whatever other
\* requests of the account are in flight, never removes from the day's list
\* a video that was credited on the current business day
C23_ResetKeepsTodaysCredits ==
  [][ \A p \in Procs :
        LET u == req[p].user
        IN  (MarkReset(p) \/ GetDailyVideosReset(p)) =>
              \A k \in 1..Len(users[u].dailyWatchedVideos) :
                 BusinessDay(users[u].dailyWatchedDates[k]) = BusinessDay(now)
                   => InSeq(users[u].dailyWatchedVideos[k],
                            users'[u].dailyWatchedVideos) ]_vars

\* the answer just sent lists no more videos than the quota leaves to the
\* account document doc, and none that is in the document's list of the day
WithinRemainingQuota(doc, quota) ==
  /\ Len(resp'.videos) <= (IF quota > Len(doc.dailyWatchedVideos)
                           THEN quota - Len(doc.dailyWatchedVideos) ELSE 0)
  /\ \A k \in 1..Len(resp'.videos) : ~InSeq(resp'.videos[k], doc.dailyWatchedVideos)

\* C24: for an account with an unexpired plan, getDailyVideos returns no
\* more videos than the remaining quota (the quota less the size of the
\* day's list, in the account document the request read, after its reset if
\* one was due) and no video that is in that list
C24_WithinQuotaAndNotToday ==
  [][ \A p \in Procs :
        /\ \A u \in Users :
             (GetDailyVideosRead(p, u) /\ HasActivePlan(u) /\ req'[p].pc = "idle")
               => WithinRemainingQuota(users[u], QuotaOf(u))
        /\ (GetDailyVideosReset(p) /\ resp'.result # "VersionError")
               => WithinRemainingQuota(req[p].doc, req[p].plan.dailyVideoLimit) ]_vars

\* C24 witness: an account with a quota of two, credited for one video
\* today, was answered with the single other video
C24_Witness ==
  /\ resp.op = "getDailyVideos" /\ resp.result = "ok"
  /\ \E u \in Users, v1, v2 \in Videos :
       /\ v1 # v2
       /\ HasActivePlan(u) /\ QuotaOf(u) = 2 /\ ResetToday(u)
       /\ users[u].dailyWatchedVideos = <<v1>>
       /\ resp.videos = <<v2>>
       /\ Quiescent

\* quota remains to the account document doc and some video is outside its
\* list of the day, yet the answer just sent lists no video
EmptyAnswerDespiteQuota(doc, quota) ==
  /\ quota > Len(doc.dailyWatchedVideos)
  /\ \E vid \in Videos : ~InSeq(vid, doc.dailyWatchedVideos)
  /\ resp'.videos = <<>>

\* C25: when quota remains and a video outside the day's list exists,
\* getDailyVideos returns a non-empty list, backfilling with videos watched
\* on earlier days when too few never-watched videos exist
C25_BackfillNonEmpty ==
  [][ \A p \in Procs :
        /\ \A u \in Users :
             (GetDailyVideosRead(p, u) /\ HasActivePlan(u) /\ req'[p].pc = "idle")
               => ~EmptyAnswerDespiteQuota(users[u], QuotaOf(u))
        /\ (GetDailyVideosReset(p) /\ resp'.result # "VersionError")
               => ~EmptyAnswerDespiteQuota(req[p].doc, req[p].plan.dailyVideoLimit) ]_vars

RewardEntries(l, u, vid) ==
  CountIn(l, {e \in BagToSet(l) :
                 /\ e.user = u /\ e.ref = vid
                 /\ e.type \in {"daily_reward", "video_reward"}})

\* C27: a money-mutating operation that fails after it started writing
\* leaves nothing behind; in particular, no request being in progress, a
\* video recorded as watched by an account has its reward entry in the ledger
C27_WatchedHasRewardEntry ==
  Quiescent =>
    \A u \in Users, vid \in Videos :
       InSeq(vid, users[u].dailyWatchedVideos) => RewardEntries(ledger, u, vid) >= 1

\* the deposit and withdrawal requests and the balances are as they were
ResolutionsUnchanged == UNCHANGED <<deposits, withdrawals, ledger>>
                          /\ \A u \in Users : users'[u].balance = users[u].balance

\* a slot is inside one of the resolving handlers
Resolving(p) ==
  req[p].pc \in {"apd_user", "apd_tx", "rjd_save", "apw_user", "apw_tx", "rjw_save"}

\* some stored request has left pending in this step
LeftPending ==
  \/ \E i \in 1..Len(deposits) :
        deposits[i].status = "pending" /\ deposits'[i].status # "pending"
  \/ \E i \in 1..Len(withdrawals) :
        withdrawals[i].status = "pending" /\ withdrawals'[i].status # "pending"

\* C28: a request to a resolving route by an actor that is not an
\* authenticated administrator is answered 401 or 403, enters no handler and
\* changes no request status and no balance; a handler is only ever entered
\* while an administrator account exists, and a request leaves pending only
\* in a step of such a handler
C28_OnlyAdminsResolve ==
  [][ /\ \A p \in Procs, actor \in Actors :
           (/\ AdminFinanceRequest(p, actor)
            /\ (actor = NoUser \/ ~users[actor].exists \/ ~users[actor].isAdmin))
             => /\ ResolutionsUnchanged
                /\ req'[p] = Idle
                /\ resp'.result \in {"Unauthorized", "Forbidden"}
      /\ \A p \in Procs :
           (~Resolving(p) /\ Resolving(p)')
             => \E actor \in Users :
                   users[actor].isAdmin /\ AdminFinanceRequest(p, actor)
      /\ LeftPending => \E p \in Procs : Resolving(p) /\ ~Resolving(p)' ]_vars

\* C28 witness: a deposit was approved, and its amount credited, on the
\* request of an account that had been made administrator
C28_Witness ==
  /\ resp = [op |-> "approveDeposit", result |-> "ok"]
  /\ \E i \in 1..Len(deposits) : deposits[i].status = "approved"
  /\ \E u \in Users : users[u].isAdmin /\ users[u].balance > SignupBonus

\* C29: the ledger is append-only: every step leaves each stored entry in
\* place with its account, amount, kind and reference (an entry's status is
\* 'completed' from creation and is never written again), so the collection
\* of entries only grows
C29_LedgerAppendOnly ==
  [][ \A e \in BagToSet(ledger) : CopiesIn(e, ledger') >= CopiesIn(e, ledger) ]_vars

\* C29 witness: a withdrawal was approved and its debit entry stands in the
\* ledger beside the entries posted before it
C29_Witness ==
  /\ BagCardinality(ledger) >= 3
  /\ \E e \in BagToSet(ledger) : e.type = "withdrawal" /\ e.amount < 0
  /\ \E e \in BagToSet(ledger) : e.type = "signup_bonus"
  /\ \E i \in 1..Len(withdrawals) : withdrawals[i].status = "approved"

\* the account holds a plan whose expiry date the clock has passed
Expired(u) ==
  users[u].exists /\ users[u].planId # NoPlan /\ DateLt(users[u].expiryDate, now)

Days(n) == n * TicksPerDay

\* C31: after every successful buyPlan the account's expiryDate equals its
\* activationDate plus exactly the plan's durationInDays days
C31_ExpiryIsActivationPlusDuration ==
  [][ \A p \in Procs :
        BuyPlanTx(p) =>
          LET u == req[p].user
          IN  users'[u].expiryDate
                = users'[u].activationDate + Days(req[p].plan.durationInDays) ]_vars

\* ---- a referral bonus beside the referrer's own operations
\* the entries posted to account u for what it did itself
OwnEntries(u) ==
  {e \in BagToSet(ledger) : e.user = u /\ e.type \in {"plan_purchase", "daily_reward"}}

\* the referral bonuses posted to account u
BonusEntries(u) ==
  {e \in BagToSet(ledger) :
     e.user = u /\ e.type \in {"referral_plan", "referral_daily"}}

\* C32: when a referral bonus is posted to a referrer beside one other
\* balance-changing operation on the same account, in any order and
\* interleaving, neither change is lost: once both requests have ended the
\* referrer's balance reflects the bonus and the other operation
C32_BonusNotLost ==
  Quiescent =>
    \A A \in Users :
      (/\ CountIn(ledger, BonusEntries(A)) >= 1
       /\ CountIn(ledger, OwnEntries(A)) = 1)
        => users[A].balance = LedgerSum(A)

\* ---- manual adjustments
\* C33: a manual adjustment that would take the balance below zero fails and
\* leaves the stored balance and the ledger unchanged; a successful one posts
\* exactly one entry of the adjustment amount, of kind admin_credit when the
\* amount is positive and admin_debit when it is negative
C33_AdjustmentGuarded ==
  [][ \A p \in Procs :
        LET u   == req[p].user
            amt == req[p].amount
        IN  /\ (AdjustUserBalanceSave(p) /\ users[u].balance + amt < 0)
                 => UNCHANGED <<users, ledger>>
            /\ AdjustUserBalanceEntry(p)
                 => ledger' = Post(ledger,
                       Entry(u, amt, IF amt > 0 THEN "admin_credit" ELSE "admin_debit",
                             NoRef)) ]_vars

\* ---- requests and the entries that refer to them
\* the ledger entries of a kind that refer to a request
RefEntries(type, ref) ==
  {e \in BagToSet(ledger) : e.type = type /\ e.ref = ref}

\* a request and the ledger agree: an approved request is referred to by
\* exactly one entry, of the given amount; any other by none
Reconciled(r, type, ref, amt) ==
  IF r.status = "approved"
  THEN /\ CountIn(ledger, RefEntries(type, ref)) = 1
       /\ \A e \in RefEntries(type, ref) : e.amount = amt /\ e.user = r.user
  ELSE RefEntries(type, ref) = {}

\* C34: in every reachable state a deposit (withdrawal) request is approved
\* if and only if exactly one deposit (withdrawal) entry refers to it, with
\* amount +amount (-amount) of the request; pending and rejected requests are
\* referred to by no entry
C34_RequestsReconciled ==
  /\ \A i \in 1..Len(deposits) :
       Reconciled(deposits[i], "deposit", DepRef(i), deposits[i].amount)
  /\ \A i \in 1..Len(withdrawals) :
       Reconciled(withdrawals[i], "withdrawal", WdRef(i), -withdrawals[i].amount)

\* C35: every stored deposit or withdrawal request has amount > 0, so the
\* approval of a withdrawal never raises the account's balance and the
\* approval of a deposit never lowers it
C35_StoredAmountsPositive ==
  [][ /\ \A i \in 1..Len(deposits') : deposits'[i].amount > 0
      /\ \A i \in 1..Len(withdrawals') : withdrawals'[i].amount > 0
      /\ \A p \in Procs :
           LET u == req[p].user
           IN  /\ ApproveDepositTx(p) => users'[u].balance >= users[u].balance
               /\ ApproveWithdrawalTx(p) => users'[u].balance <= users[u].balance ]_vars

\* ---- the two watch lists
NoDuplicates(s) == \A j, k \in 1..Len(s) : s[j] = s[k] => j = k

\* C36: in every reachable state an account's dailyWatchedVideos holds no
\* video twice and every video in it is also in the account's
\* fullWatchedHistory, also after deleteVideo and after daily resets
C36_DailyListWithinHistory ==
  \A u \in Users :
    /\ NoDuplicates(users[u].dailyWatchedVideos)
    /\ TodayIds(users[u]) \subseteq users[u].fullWatchedHistory

\* ---- the plan checks of the handlers
\* a markVideoAsWatched request of the account would now be refused for
\* having no active plan
WatchRefusedNoPlan(u) ==
  ENABLED (\E p \in Procs, vid \in Videos :
             /\ MarkRead(p, u, vid)
             /\ req'[p] = Idle
             /\ resp' = [op |-> "markVideoAsWatched", result |-> "NoActivePlan"])

\* a buyPlan request of the account would now be refused for already having
\* an active plan
BuyRefusedActivePlan(u) ==
  ENABLED (\E p \in Procs, pl \in PlanIds :
             /\ BuyPlanRead(p, u, pl)
             /\ req'[p] = Idle
             /\ resp' = [op |-> "buyPlan", result |-> "AlreadyActivePlan"])

\* C37: the plan checks agree: in no reachable state, also after deletePlan
\* or updatePlan, is an account refused by markVideoAsWatched for having no
\* active plan while buyPlan refuses it for already having one
C37_PlanChecksAgree ==
  \A u \in Users : ~(WatchRefusedNoPlan(u) /\ BuyRefusedActivePlan(u))

\* ---- what a subscription pays
\* createPlan's totalReward of the plan an account holds
TotalReward(pl) == pl.dailyVideoLimit * pl.durationInDays * pl.rewardPerVideo

\* C38: for a subscription whose plan terms are unchanged, the daily_reward
\* amounts credited to the account from the activation to the expiry never
\* sum to more than the plan's totalReward (stated for an account's first
\* purchase: all its daily_reward entries belong to that subscription)
C38_RewardsWithinTotalReward ==
  \A u \in Users :
    (CountOf(ledger, u, "plan_purchase") = 1 /\ users[u].planId # NoPlan)
      => SumAmounts(ledger, EntriesOf(u, "daily_reward"))
           <= TotalReward(plans[users[u].planId])

\* ---- blocked accounts
\* the step completes a money-affecting operation of account u: a plan
\* purchase or a video reward is committed, or a deposit or withdrawal
\* request of the account is stored
CompletesMoneyOperation(u) ==
  \/ \E p \in Procs : req[p].user = u /\ (BuyPlanTx(p) \/ MarkTx(p))
  \/ /\ Len(deposits') = Len(deposits) + 1
     /\ deposits'[Len(deposits')].user = u
  \/ /\ Len(withdrawals') = Len(withdrawals) + 1
     /\ withdrawals'[Len(withdrawals')].user = u

\* C39: while an account is blocked it completes no money-affecting
\* operation (buyPlan, markVideoAsWatched, requestDeposit,
\* requestWithdrawal), also with a token issued before the block
C39_BlockedAccountsInert ==
  [][ \A u \in Users : users[u].isBlocked => ~CompletesMoneyOperation(u) ]_vars

\* ---- the daily list answered
\* C40: getDailyVideos never lists the same video twice in one response,
\* also when the backfill query runs because fewer never-watched videos
\* exist than the quota leaves
C40_NoVideoTwiceInAnswer ==
  resp.op = "getDailyVideos" => NoDuplicates(resp.videos)

====
